---------------------------- MODULE Spec2Model ----------------------------
(***************************************************************************)
(* A model of the pars lexer generator: character intervals, the NFA       *)
(* builders with relative offsets, the subset construction over intervals  *)
(* and the longest-match matcher that the code generator emits.            *)
(*                                                                         *)
(* Conventions.  Rust indices are kept 0-based in every value (offsets,    *)
(* NFA-state indices, DFA targets); a TLA+ sequence s is read at s[i + 1]. *)
(* An Option<T> is a sequence of length 0 (None) or 1 (Some).  A BTreeMap  *)
(* is a function; its iteration order is the sorted order of its keys.     *)
(* An accepting payload (a String in the source) is a positive integer.    *)
(***************************************************************************)
EXTENDS Integers, Sequences, FiniteSets, TLC

VARIABLES
    nfa,        \* the Nfa under construction (a sequence of NFA states)
    last,       \* the last builder call: its name and its operands before the call
    panicked,   \* TRUE once an assert! of the library has aborted the program
    dfa,        \* the Dfa returned by Dfa::from_nfa (<<>>: not built yet)
    lexer,      \* the emitted matcher: its input, buffer offset and last result
    iv,         \* the operands and the result of the last Interval::intersect
    resolving,  \* a call of Dfa::resolve_intersections: its argument and move_set
    conv,       \* a call of Dfa::from_nfa in progress: dfa_states and cur_state
    codegen     \* a call of CodeGen::generate in progress: the code being rewritten

vars == <<nfa, last, panicked, dfa, lexer, iv, resolving, conv, codegen>>

-----------------------------------------------------------------------------
(* Bounds of the model *)

\* u32 is modelled as an unsigned integer of CodeBits bits
CodeBits == 5
\* the patterns and the inputs use the code points 0..MaxChar
MaxChar == 1
\* an NFA under construction holds at most MaxStates explicit states
MaxStates == 5
\* a multi-pattern NFA of the lexer specification holds at most MaxLexStates states
MaxLexStates == 7
\* the accepting payloads are 1..NPayloads
NPayloads == 2
\* the simulated input strings have at most MaxInput code points
MaxInput == 3

\* a lexer combines at most MaxPatterns patterns
MaxPatterns == 3
\* a move set given to resolve_intersections has at most MaxKeys keys, whose
\* intervals lie in 0..MaxKeyPoint and whose targets are NFA states 0..MaxTarget
MaxKeys == 3
MaxKeyPoint == 3
MaxTarget == 1

\* the longest text of a token type or of an action, in symbols
MaxText == 3

\* the longest String the generator's memory holds, in symbols
MaxCodeLen == 120

U32Mod == 2 ^ CodeBits
U32Max == U32Mod - 1

-----------------------------------------------------------------------------
(* Generic helpers *)

None == <<>>
Some(x) == <<x>>

EmptyMap == [x \in {} |-> 0]

Range(s) == {s[k] : k \in 1..Len(s)}

Min(S) == CHOOSE x \in S : \A y \in S : x <= y

Max(S) == CHOOSE x \in S : \A y \in S : y <= x

\* lexicographic order of two integer tuples of the same length (derived Ord)
LexLt(a, b) ==
    \E i \in 1..Len(a) : a[i] < b[i] /\ \A j \in 1..(i - 1) : a[j] = b[j]

\* the keys of a BTreeMap in iteration order
RECURSIVE SortedKeys(_)
SortedKeys(S) ==
    IF S = {} THEN <<>>
    ELSE LET m == CHOOSE x \in S : \A y \in S \ {x} : LexLt(x, y)
         IN <<m>> \o SortedKeys(S \ {m})

RECURSIVE SortedNats(_)
SortedNats(S) ==
    IF S = {} THEN <<>>
    ELSE LET m == Min(S) IN <<m>> \o SortedNats(S \ {m})

\* Vec::sort followed by Vec::dedup
SortDedup(v) == SortedNats(Range(v))

\* all strings over 0..MaxChar of length at most n
RECURSIVE StringsUpTo(_)
StringsUpTo(n) ==
    IF n = 0 THEN {<<>>}
    ELSE LET shorter == StringsUpTo(n - 1)
         IN shorter \cup {Append(s, c) : s \in {t \in shorter : Len(t) = n - 1},
                                          c \in 0..MaxChar}

Strings == StringsUpTo(MaxInput)

-----------------------------------------------------------------------------
(* character.rs: Interval *)

Chars == 0..MaxChar

Interval_new(first, last_) ==
    IF first > last_ THEN <<last_, first>> ELSE <<first, last_>>

Interval_new_single(c) == <<c, c>>

Interval_new_any == <<0, U32Max>>

Interval_first(i) == i[1]
Interval_last(i) == i[2]

\* the intervals the patterns are built from
CharIntervals == {Interval_new(a, b) : a \in Chars, b \in Chars}

\* every Interval value: first <= last within u32
AllIntervals == {i \in (0..U32Max) \X (0..U32Max) : i[1] <= i[2]}

Contains(i, c) == i[1] <= c /\ c <= i[2]

intersects(self, other) ==
    Interval_first(self) <= Interval_last(other)
        /\ Interval_first(other) <= Interval_last(self)

maybe(first, last_) ==
    IF first <= last_ THEN Some(<<first, last_>>) ELSE None

\* mutant: self and other are not put in order first
intersect_unordered(self, other) ==
    LET a == self
        b == other
    IN  IF ~intersects(a, b) THEN <<Some(a), None, Some(b)>>
        ELSE
        LET a_l == Interval_last(a)
            b_l == Interval_last(b)
            mid_first == Interval_first(b)
            mid_last == IF a_l <= b_l THEN a_l ELSE b_l
            right_last == IF a_l >= b_l THEN a_l ELSE b_l
        IN  <<IF mid_first > 0
              THEN maybe(Interval_first(a), (mid_first - 1) % U32Mod)
              ELSE None,
              maybe(mid_first, mid_last),
              IF mid_last < U32Max
              THEN maybe((mid_last + 1) % U32Mod, right_last)
              ELSE None>>

\* mutant: the left part is computed without the "mid_first > 0" guard
intersect_unguarded_left(self, other) ==
    LET a == IF LexLt(self, other) THEN self ELSE other
        b == IF LexLt(self, other) THEN other ELSE self
    IN  IF ~intersects(a, b) THEN <<Some(a), None, Some(b)>>
        ELSE
        LET a_l == Interval_last(a)
            b_l == Interval_last(b)
            mid_first == Interval_first(b)
            mid_last == IF a_l <= b_l THEN a_l ELSE b_l
            right_last == IF a_l >= b_l THEN a_l ELSE b_l
        IN  <<maybe(Interval_first(a), (mid_first - 1) % U32Mod),
              maybe(mid_first, mid_last),
              IF mid_last < U32Max
              THEN maybe((mid_last + 1) % U32Mod, right_last)
              ELSE None>>

intersect(self, other) ==
    LET a == IF LexLt(self, other) THEN self ELSE other
        b == IF LexLt(self, other) THEN other ELSE self
    IN  IF ~intersects(a, b) THEN <<Some(a), None, Some(b)>>
        ELSE
        LET a_f == Interval_first(a)
            b_f == Interval_first(b)
            a_l == Interval_last(a)
            b_l == Interval_last(b)
            left_first == a_f
            mid_first == b_f
            mid_last == IF a_l <= b_l THEN a_l ELSE b_l
            right_last == IF a_l >= b_l THEN a_l ELSE b_l
            middle == maybe(mid_first, mid_last)
            left == IF mid_first > 0
                    THEN maybe(left_first, (mid_first - 1) % U32Mod)
                    ELSE None
            right == IF mid_last < U32Max
                     THEN maybe((mid_last + 1) % U32Mod, right_last)
                     ELSE None
        IN  <<left, middle, right>>

-----------------------------------------------------------------------------
(* nfa.rs: Transition, State, Nfa *)

\* mutant: Epsilon is declared before Input
Epsilon_first == <<-1, 0, 0>>

\* enum Transition { Input(Interval), Epsilon } with its derived Ord: the
\* variant index comes first, then the interval
Input(i) == <<0, i[1], i[2]>>
Epsilon == <<1, 0, 0>>
IsInput(t) == t[1] = 0
InputInterval(t) == <<t[2], t[3]>>

State_new == [moves |-> EmptyMap, accepting |-> None]

State_new_accepting(desc) == [moves |-> EmptyMap, accepting |-> Some(desc)]

set_moves(state, input, targets) ==
    [state EXCEPT !.moves =
        [t \in (DOMAIN state.moves) \cup {input} |->
            IF t = input THEN targets ELSE state.moves[t]]]

add_move(state, input, target) ==
    [state EXCEPT !.moves =
        [t \in (DOMAIN state.moves) \cup {input} |->
            IF t = input
            THEN (IF input \in DOMAIN state.moves
                  THEN Append(state.moves[input], target)
                  ELSE <<target>>)
            ELSE state.moves[t]]]

get_moves(state, input) ==
    IF input \in DOMAIN state.moves THEN state.moves[input] ELSE <<>>

Nfa_new(i) == <<set_moves(State_new, Input(i), <<1>>)>>

Nfa_new_accepting(desc) == <<State_new_accepting(desc)>>

Nfa_new_empty == <<>>

\* mutant: the operand's states are put in front of self's
Nfa_concat_swapped(self, other) == other \o self

Nfa_concat(self, other) == self \o other

\* mutant: state (2) points at state (4) of the operand, not one past it
Nfa_union_self_to_other(self, other) ==
    LET state_4 == set_moves(State_new, Epsilon, <<1>>)
        other1 == Append(other, state_4)
        state_2 == set_moves(State_new, Epsilon, <<Len(other1)>>)
        self1 == Append(self, state_2)
        state_0 == set_moves(State_new, Epsilon, <<1, Len(self1) + 1>>)
        self2 == <<state_0>> \o self1
    IN  self2 \o other1

\* mutant: the entry's second offset is computed before state (2) is pushed
Nfa_union_short_entry(self, other) ==
    LET state_4 == set_moves(State_new, Epsilon, <<1>>)
        other1 == Append(other, state_4)
        state_2 == set_moves(State_new, Epsilon, <<Len(other1) + 1>>)
        self1 == Append(self, state_2)
        state_0 == set_moves(State_new, Epsilon, <<1, Len(self) + 1>>)
        self2 == <<state_0>> \o self1
    IN  self2 \o other1

Nfa_union(self, other) ==
    LET state_4 == set_moves(State_new, Epsilon, <<1>>)
        other1 == Append(other, state_4)
        state_2 == set_moves(State_new, Epsilon, <<Len(other1) + 1>>)
        self1 == Append(self, state_2)
        state_0 == set_moves(State_new, Epsilon, <<1, Len(self1) + 1>>)
        self2 == <<state_0>> \o self1
    IN  self2 \o other1

\* mutant: the exit state loops back to the new entry, state (0)
Nfa_star_loop_to_entry(self) ==
    LET state_2 == set_moves(State_new, Epsilon, <<1, -(Len(self) + 1)>>)
        self1 == Append(self, state_2)
        state_0 == set_moves(State_new, Epsilon, <<1, Len(self1) + 1>>)
    IN  <<state_0>> \o self1

\* mutant: the exit state does not loop back to the old entry
Nfa_star_no_loop(self) ==
    LET state_2 == set_moves(State_new, Epsilon, <<1>>)
        self1 == Append(self, state_2)
        state_0 == set_moves(State_new, Epsilon, <<1, Len(self1) + 1>>)
    IN  <<state_0>> \o self1

\* mutant: the entry's skip offset is one too far
Nfa_star_far_skip(self) ==
    LET state_2 == set_moves(State_new, Epsilon, <<1, -Len(self)>>)
        self1 == Append(self, state_2)
        state_0 == set_moves(State_new, Epsilon, <<1, Len(self1) + 2>>)
    IN  <<state_0>> \o self1

Nfa_star(self) ==
    LET state_2 == set_moves(State_new, Epsilon, <<1, -Len(self)>>)
        self1 == Append(self, state_2)
        state_0 == set_moves(State_new, Epsilon, <<1, Len(self1) + 1>>)
    IN  <<state_0>> \o self1

\* mutant: the entry also skips to the terminal, as in star
Nfa_positive_with_skip(self) ==
    LET state_2 == set_moves(State_new, Epsilon, <<1, -Len(self)>>)
        self1 == Append(self, state_2)
        state_0 == set_moves(State_new, Epsilon, <<1, Len(self1) + 1>>)
    IN  <<state_0>> \o self1

Nfa_positive(self) ==
    LET state_2 == set_moves(State_new, Epsilon, <<1, -Len(self)>>)
        self1 == Append(self, state_2)
        state_0 == set_moves(State_new, Epsilon, <<1>>)
    IN  <<state_0>> \o self1

Nfa_is_accepting(self) ==
    IF Len(self) > 0 THEN self[Len(self)].accepting # None ELSE FALSE

\* mutant: set_moves in place of add_move, state 0 keeps only the new offset
Nfa_combine_set_moves(self, other) ==
    LET other_start == Len(self)
        self1 == [self EXCEPT ![1] = set_moves(self[1], Epsilon, <<other_start>>)]
    IN  self1 \o other

\* the body of combine after its two assert!s
Nfa_combine(self, other) ==
    LET other_start == Len(self)
        self1 == [self EXCEPT ![1] = add_move(self[1], Epsilon, other_start)]
    IN  self1 \o other

Nfa_accepting(self, state_idx) ==
    IF state_idx < Len(self) THEN self[state_idx + 1].accepting ELSE None

transitions(self, state_idx, input) ==
    IF state_idx < Len(self)
    THEN LET moves == get_moves(self[state_idx + 1], input)
         IN [k \in 1..Len(moves) |-> state_idx + moves[k]]
    ELSE <<>>

\* the for loop of epsilon_closure over the transitions of one popped state
RECURSIVE ClosureVisit(_, _, _, _)
ClosureVisit(ts, k, epsi_states, remaining_states) ==
    IF k > Len(ts) THEN <<epsi_states, remaining_states>>
    ELSE IF ts[k] \notin Range(epsi_states)
         THEN ClosureVisit(ts, k + 1, Append(epsi_states, ts[k]),
                           Append(remaining_states, ts[k]))
         ELSE ClosureVisit(ts, k + 1, epsi_states, remaining_states)

\* the while loop of epsilon_closure: pop a state, visit its epsilon moves
RECURSIVE ClosureLoop(_, _, _)
ClosureLoop(self, epsi_states, remaining_states) ==
    IF remaining_states = <<>> THEN epsi_states
    ELSE LET n == Len(remaining_states)
             state == remaining_states[n]
             r == ClosureVisit(transitions(self, state, Epsilon), 1,
                               epsi_states, SubSeq(remaining_states, 1, n - 1))
         IN ClosureLoop(self, r[1], r[2])

\* mutant: the given states are left out of epsi_states at the start
epsilon_closure_without_self(self, states) == ClosureLoop(self, <<>>, states)

epsilon_closure(self, states) == ClosureLoop(self, states, states)

MapInsert(m, k, v) == [x \in (DOMAIN m) \cup {k} |-> IF x = k THEN v ELSE m[x]]

MapRemove(m, k) == [x \in (DOMAIN m) \ {k} |-> m[x]]

\* the inner for loop of get_move_set over the moves of NFA state s
RECURSIVE MoveSetOfState(_, _, _, _, _)
MoveSetOfState(self, s, keys, k, m_s) ==
    IF k > Len(keys) THEN m_s
    ELSE LET transition == keys[k]
         IN IF IsInput(transition)
            THEN LET c == InputInterval(transition)
                     cur_states == IF c \in DOMAIN m_s THEN m_s[c] ELSE <<>>
                     target == self[s + 1].moves[transition]
                     s_vec == [j \in 1..Len(target) |-> s + target[j]]
                     e_c == epsilon_closure(self, s_vec)
                 IN MoveSetOfState(self, s, keys, k + 1,
                                   MapInsert(m_s, c, SortDedup(cur_states \o e_c)))
            ELSE MoveSetOfState(self, s, keys, k + 1, m_s)

\* the outer for loop of get_move_set over the given states
RECURSIVE MoveSetLoop(_, _, _, _)
MoveSetLoop(self, states, n, m_s) ==
    IF n > Len(states) THEN m_s
    ELSE LET s == states[n]
         IN IF s < Len(self)
            THEN MoveSetLoop(self, states, n + 1,
                     MoveSetOfState(self, s,
                         SortedKeys(DOMAIN self[s + 1].moves), 1, m_s))
            ELSE MoveSetLoop(self, states, n + 1, m_s)

get_move_set(self, states) == MoveSetLoop(self, states, 1, EmptyMap)

-----------------------------------------------------------------------------
(* dfa.rs: State, Dfa *)

Dfa_State_new == [moves |-> EmptyMap, accepting |-> None]

Dfa_State_new_accepting(desc) == [moves |-> EmptyMap, accepting |-> Some(desc)]

set_move(state, input, target) ==
    [state EXCEPT !.moves = MapInsert(state.moves, input, target)]

is_accepting(state) == state.accepting # None

\* mutant: only the first two keys are compared
find_intersection_first_two(move_set) ==
    LET keys == SortedKeys(DOMAIN move_set)
    IN  IF Len(keys) >= 2 /\ intersects(keys[1], keys[2])
        THEN Some(<<keys[1], keys[2]>>)
        ELSE None

find_intersection(move_set) ==
    LET keys == SortedKeys(DOMAIN move_set)
        hits == {k \in 1..(Len(keys) - 1) : intersects(keys[k], keys[k + 1])}
    IN  IF hits = {} THEN None
        ELSE Some(<<keys[Min(hits)], keys[Min(hits) + 1]>>)

\* mutant: a and b are not removed from the move set before their parts are
\* inserted
ResolvePass_keep(move_set, a, b) ==
    LET a_states == move_set[a]
        b_states == move_set[b]
        ab_states == SortDedup(a_states \o b_states)
        lir == intersect(a, b)
        left == lir[1]
        inter == lir[2][1]
        right == lir[3]
        m1 == MapInsert(move_set, inter, ab_states)
        m2 == IF right # None
              THEN MapInsert(m1, right[1],
                       IF Interval_last(a) > Interval_last(b)
                       THEN a_states ELSE b_states)
              ELSE m1
        m3 == IF left # None THEN MapInsert(m2, left[1], a_states) ELSE m2
    IN  m3

\* mutant: the whole of b is stored again where its right part belongs
ResolvePass_whole_b(move_set, a, b) ==
    LET a_states == move_set[a]
        b_states == move_set[b]
        removed == MapRemove(MapRemove(move_set, a), b)
        ab_states == SortDedup(a_states \o b_states)
        lir == intersect(a, b)
        left == lir[1]
        inter == lir[2][1]
        right == lir[3]
        m1 == MapInsert(removed, inter, ab_states)
        m2 == IF right # None
              THEN IF Interval_last(a) > Interval_last(b)
                   THEN MapInsert(m1, right[1], a_states)
                   ELSE MapInsert(m1, b, b_states)
              ELSE m1
        m3 == IF left # None THEN MapInsert(m2, left[1], a_states) ELSE m2
    IN  m3

\* mutant: the intersection keeps the states of a alone
ResolvePass_inter_of_a(move_set, a, b) ==
    LET a_states == move_set[a]
        b_states == move_set[b]
        removed == MapRemove(MapRemove(move_set, a), b)
        lir == intersect(a, b)
        left == lir[1]
        inter == lir[2][1]
        right == lir[3]
        m1 == MapInsert(removed, inter, a_states)
        m2 == IF right # None
              THEN MapInsert(m1, right[1],
                       IF Interval_last(a) > Interval_last(b)
                       THEN a_states ELSE b_states)
              ELSE m1
        m3 == IF left # None THEN MapInsert(m2, left[1], a_states) ELSE m2
    IN  m3

\* one pass of the while loop of resolve_intersections on the pair (a, b)
ResolvePass(move_set, a, b) ==
    LET a_states == move_set[a]
        b_states == move_set[b]
        removed == MapRemove(MapRemove(move_set, a), b)
        ab_states == SortDedup(a_states \o b_states)
        lir == intersect(a, b)
        left == lir[1]
        inter == lir[2][1]
        right == lir[3]
        m1 == MapInsert(removed, inter, ab_states)
        m2 == IF right # None
              THEN MapInsert(m1, right[1],
                       IF Interval_last(a) > Interval_last(b)
                       THEN a_states ELSE b_states)
              ELSE m1
        m3 == IF left # None THEN MapInsert(m2, left[1], a_states) ELSE m2
    IN  m3

\* mutant: the move set is used as get_move_set returned it
resolve_intersections_skipped(move_set) == move_set

RECURSIVE resolve_intersections(_)
resolve_intersections(move_set) ==
    LET found == find_intersection(move_set)
    IN  IF found = None THEN move_set
        ELSE resolve_intersections(ResolvePass(move_set, found[1][1], found[1][2]))

\* mutant: a set with accepting states of different payloads gets no payload
DState_from_nfa_states_ambiguous(nfa_, n_s) ==
    LET sorted == SortDedup(n_s)
        found == {Nfa_accepting(nfa_, sorted[k]) : k \in 1..Len(sorted)}
                     \ {None}
        accepting == IF Cardinality(found) = 1
                     THEN CHOOSE a \in found : TRUE
                     ELSE None
        dfa_state == IF accepting # None
                     THEN Dfa_State_new_accepting(accepting[1])
                     ELSE Dfa_State_new
    IN  [nfa_states |-> sorted, dfa_state |-> dfa_state]

\* mutant: the scan does not break at the first accepting state, so the last
\* one found is kept
DState_from_nfa_states_last(nfa_, n_s) ==
    LET sorted == SortDedup(n_s)
        hits == {k \in 1..Len(sorted) : Nfa_accepting(nfa_, sorted[k]) # None}
        accepting == IF hits = {} THEN None
                     ELSE Nfa_accepting(nfa_, sorted[Max(hits)])
        dfa_state == IF accepting # None
                     THEN Dfa_State_new_accepting(accepting[1])
                     ELSE Dfa_State_new
    IN  [nfa_states |-> sorted, dfa_state |-> dfa_state]

DState_from_nfa_states(nfa_, n_s) ==
    LET sorted == SortDedup(n_s)
        hits == {k \in 1..Len(sorted) : Nfa_accepting(nfa_, sorted[k]) # None}
        accepting == IF hits = {} THEN None
                     ELSE Nfa_accepting(nfa_, sorted[Min(hits)])
        dfa_state == IF accepting # None
                     THEN Dfa_State_new_accepting(accepting[1])
                     ELSE Dfa_State_new
    IN  [nfa_states |-> sorted, dfa_state |-> dfa_state]

\* the for loop of from_nfa over the resolved move set of DFA state cur_state
RECURSIVE FromNfaMoves(_, _, _, _, _, _)
FromNfaMoves(nfa_, dfa_states, cur_state, move_set, keys, k) ==
    IF k > Len(keys) THEN dfa_states
    ELSE LET transition == keys[k]
             states == move_set[transition]
             found == {pos \in 1..Len(dfa_states) :
                          dfa_states[pos].nfa_states = states}
             pushed == IF found = {}
                       THEN Append(dfa_states,
                                   DState_from_nfa_states(nfa_, states))
                       ELSE dfa_states
             target == IF found = {} THEN Len(pushed) - 1 ELSE Min(found) - 1
             moved == [pushed EXCEPT ![cur_state + 1].dfa_state =
                          set_move(@, transition, target)]
         IN FromNfaMoves(nfa_, moved, cur_state, move_set, keys, k + 1)

\* the while loop of from_nfa over the DFA states still to expand
RECURSIVE FromNfaLoop(_, _, _)
FromNfaLoop(nfa_, dfa_states, cur_state) ==
    IF cur_state >= Len(dfa_states) THEN dfa_states
    ELSE LET move_set == resolve_intersections(
                 get_move_set(nfa_, dfa_states[cur_state + 1].nfa_states))
         IN FromNfaLoop(nfa_,
                FromNfaMoves(nfa_, dfa_states, cur_state, move_set,
                             SortedKeys(DOMAIN move_set), 1),
                cur_state + 1)

\* optimize, the for loop over the states of one group: state_idx joins the
\* first subgroup (from subgroup_start on) whose first state has the same
\* move map, or opens a new subgroup
RECURSIVE PlaceStates(_, _, _, _, _)
PlaceStates(states, group, k, next_partition, subgroup_start) ==
    IF k > Len(group) THEN next_partition
    ELSE LET state_idx == group[k]
             equiv == {j \in (subgroup_start + 1)..Len(next_partition) :
                          states[next_partition[j][1] + 1].moves
                              = states[state_idx + 1].moves}
             placed == IF equiv = {}
                       THEN Append(next_partition, <<state_idx>>)
                       ELSE [next_partition EXCEPT
                                ![Min(equiv)] = Append(@, state_idx)]
         IN PlaceStates(states, group, k + 1, placed, subgroup_start)

\* optimize, the for loop over the groups of the partition
RECURSIVE SplitGroups(_, _, _, _)
SplitGroups(states, partition, g, next_partition) ==
    IF g > Len(partition) THEN next_partition
    ELSE SplitGroups(states, partition, g + 1,
             PlaceStates(states, partition[g], 1, next_partition,
                         Len(next_partition)))

\* optimize, the loop "while needs_loop"
RECURSIVE OptimizeLoop(_, _)
OptimizeLoop(states, partition) ==
    LET next_partition == SplitGroups(states, partition, 1, <<>>)
    IN  IF Len(partition) # Len(next_partition)
        THEN OptimizeLoop(states, next_partition)
        ELSE next_partition

\* the partition that optimize computes and prints
OptimizePartition(states) ==
    LET accepting == SortedNats({i \in 0..(Len(states) - 1) :
                                    is_accepting(states[i + 1])})
        non_accepting == SortedNats({i \in 0..(Len(states) - 1) :
                                        ~is_accepting(states[i + 1])})
    IN  OptimizeLoop(states, <<accepting, non_accepting>>)

\* mutant: every state takes the payload of the first state of its group
Dfa_optimize_merge_payloads(states) ==
    LET partition == OptimizePartition(states)
        GroupOf(i) == CHOOSE g \in 1..Len(partition) : i \in Range(partition[g])
    IN  [k \in 1..Len(states) |->
            [states[k] EXCEPT
                !.accepting = states[partition[GroupOf(k - 1)][1] + 1].accepting]]

\* optimize computes the partition and prints it; it never assigns
\* self.states
Dfa_optimize(states) == states

\* from_nfa up to "let mut dfa = Dfa { states: ... }", before dfa.optimize()
FromNfaStates(nfa_) ==
    LET epsi_0 == epsilon_closure(nfa_, <<0>>)
        dfa_states == FromNfaLoop(nfa_, <<DState_from_nfa_states(nfa_, epsi_0)>>, 0)
    IN  [k \in 1..Len(dfa_states) |-> dfa_states[k].dfa_state]

Dfa_from_nfa(nfa_) == Dfa_optimize(FromNfaStates(nfa_))


-----------------------------------------------------------------------------
(* codegen.rs: the matcher that CodeGen::generate emits *)

\* generate_matcher: the arm of DFA state state_idx on code point input.  One
\* case per interval of move_map in key order, then "_ => None"; the case
\* records a checkpoint when its target is accepting
MatchArm(dfa_, state_idx, input) ==
    LET moves == dfa_[state_idx + 1].moves
        keys == SortedKeys(DOMAIN moves)
        hits == {k \in 1..Len(keys) : Contains(keys[k], input)}
    IN  IF hits = {} THEN None
        ELSE LET target == moves[keys[Min(hits)]]
             IN Some([target |-> target,
                      checkpoint |-> is_accepting(dfa_[target + 1])])

\* the state machine loop of the emitted next_token: read a code point, take
\* the arm of the current state, stop on "no transition" or at end of input
RECURSIVE MatchLoop(_, _, _, _, _)
MatchLoop(dfa_, input, state, buffer_offset, accepting_state) ==
    IF buffer_offset >= Len(input)
    THEN [offset |-> buffer_offset, accepting_state |-> accepting_state]
    ELSE LET arm == MatchArm(dfa_, state, input[buffer_offset + 1])
         IN IF arm = None
            THEN [offset |-> buffer_offset, accepting_state |-> accepting_state]
            ELSE MatchLoop(dfa_, input, arm[1].target, buffer_offset + 1,
                     IF arm[1].checkpoint
                     THEN Some(<<buffer_offset + 1, arm[1].target>>)
                     ELSE accepting_state)

\* mutant: NoMatch carries the offset at which the loop stopped
next_token_nomatch_at_stop(dfa_, input, start) ==
    LET r == MatchLoop(dfa_, input, 0, start, None)
    IN  IF r.accepting_state # None
        THEN [kind |-> "Token", start |-> start,
              pos |-> r.accepting_state[1][1],
              val |-> dfa_[r.accepting_state[1][2] + 1].accepting[1]]
        ELSE IF r.offset = start /\ start >= Len(input)
        THEN [kind |-> "EndOfFile", start |-> start, pos |-> start, val |-> 0]
        ELSE [kind |-> "NoMatch", start |-> start, pos |-> start,
              val |-> r.offset]

\* mutant: an accepting start state is recorded as a checkpoint before any
\* code point is read
next_token_checkpoint_start(dfa_, input, start) ==
    LET r == MatchLoop(dfa_, input, 0, start,
                       IF is_accepting(dfa_[1]) THEN Some(<<start, 0>>)
                       ELSE None)
    IN  IF r.accepting_state # None
        THEN [kind |-> "Token", start |-> start,
              pos |-> r.accepting_state[1][1],
              val |-> dfa_[r.accepting_state[1][2] + 1].accepting[1]]
        ELSE IF r.offset = start /\ start >= Len(input)
        THEN [kind |-> "EndOfFile", start |-> start, pos |-> start, val |-> 0]
        ELSE [kind |-> "NoMatch", start |-> start, pos |-> start, val |-> start]

\* what next_token does when the loop exits
next_token(dfa_, input, start) ==
    LET r == MatchLoop(dfa_, input, 0, start, None)
    IN  IF r.accepting_state # None
        THEN [kind |-> "Token", start |-> start,
              pos |-> r.accepting_state[1][1],
              val |-> dfa_[r.accepting_state[1][2] + 1].accepting[1]]
        ELSE IF r.offset = start /\ start >= Len(input)
        THEN [kind |-> "EndOfFile", start |-> start, pos |-> start, val |-> 0]
        ELSE [kind |-> "NoMatch", start |-> start, pos |-> start, val |-> start]

-----------------------------------------------------------------------------
(* The builder calls as actions *)

NoCall == [op |-> "none", a |-> <<>>, b |-> <<>>]
NoLexer == [input |-> <<>>, pos |-> 0, result |-> <<>>]
NoIntersect == <<>>
NoResolve == <<>>
NoConv == <<>>
NoCodeGen == <<>>

Payloads == 1..NPayloads

\* the constructors of Nfa
Constructed ==
    {Nfa_new(i) : i \in CharIntervals}
        \cup {Nfa_new_accepting(p) : p \in Payloads}
        \cup {Nfa_new_empty}

\* the operands handed to concat, union and combine: a constructed NFA, or
\* one built from constructed NFAs by one more builder call
Operands ==
    Constructed
        \cup {Nfa_star(x) : x \in Constructed}
        \cup {Nfa_positive(x) : x \in Constructed}
        \cup {Nfa_concat(x, y) : x \in Constructed, y \in Constructed}
        \cup {Nfa_union(x, y) : x \in Constructed, y \in Constructed}

Building == ~panicked /\ lexer = NoLexer /\ iv = NoIntersect

\* let mut nfa = Nfa::new(i) / Nfa::new_accepting(desc) / Nfa::new_empty()
Construct(x) ==
    /\ Building
    /\ nfa' = x
    /\ last' = [op |-> "new", a |-> <<>>, b |-> <<>>]
    /\ dfa' = <<>>
    /\ UNCHANGED <<panicked, lexer, iv, resolving, conv, codegen>>

Concat(other) ==
    /\ Building
    /\ Len(nfa) + Len(other) <= MaxStates
    /\ nfa' = Nfa_concat(nfa, other)
    /\ last' = [op |-> "concat", a |-> nfa, b |-> other]
    /\ dfa' = <<>>
    /\ UNCHANGED <<panicked, lexer, iv, resolving, conv, codegen>>

Union(other) ==
    /\ Building
    /\ Len(nfa) + Len(other) + 3 <= MaxStates
    /\ nfa' = Nfa_union(nfa, other)
    /\ last' = [op |-> "union", a |-> nfa, b |-> other]
    /\ dfa' = <<>>
    /\ UNCHANGED <<panicked, lexer, iv, resolving, conv, codegen>>

Star ==
    /\ Building
    /\ Len(nfa) + 2 <= MaxStates
    /\ nfa' = Nfa_star(nfa)
    /\ last' = [op |-> "star", a |-> nfa, b |-> <<>>]
    /\ dfa' = <<>>
    /\ UNCHANGED <<panicked, lexer, iv, resolving, conv, codegen>>

Positive ==
    /\ Building
    /\ Len(nfa) + 2 <= MaxStates
    /\ nfa' = Nfa_positive(nfa)
    /\ last' = [op |-> "positive", a |-> nfa, b |-> <<>>]
    /\ dfa' = <<>>
    /\ UNCHANGED <<panicked, lexer, iv, resolving, conv, codegen>>

\* combine: its two assert!s abort the program, else its body runs
CombineWithin(other, bound) ==
    /\ Building
    /\ Len(nfa) + Len(other) <= bound
    /\ IF Nfa_is_accepting(nfa) /\ Nfa_is_accepting(other)
       THEN /\ nfa' = Nfa_combine(nfa, other)
            /\ panicked' = FALSE
       ELSE /\ nfa' = nfa
            /\ panicked' = TRUE
    /\ last' = [op |-> "combine", a |-> nfa, b |-> other]
    /\ dfa' = <<>>
    /\ UNCHANGED <<lexer, iv, resolving, conv, codegen>>

Combine(other) == CombineWithin(other, MaxStates)

\* let dfa = Dfa::from_nfa(&nfa)
FromNfa ==
    /\ Building
    /\ dfa = <<>>
    /\ dfa' = Dfa_from_nfa(nfa)
    /\ UNCHANGED <<nfa, last, panicked, lexer, iv, resolving, conv, codegen>>

\* a.intersect(b)
Intersect(a, b) ==
    /\ iv' = [a |-> a, b |-> b, res |-> intersect(a, b)]
    /\ UNCHANGED <<nfa, last, panicked, dfa, lexer, resolving, conv, codegen>>

\* the patterns of a lexer, as the lexers of the tests build them: one or
\* two intervals, [i]+ or [i]*, followed by the accepting state of the pattern
PatternsFor(desc) ==
    LET accept == Nfa_new_accepting(desc)
        one == {Nfa_new(i) : i \in CharIntervals}
    IN  {Nfa_concat(x, accept) : x \in one}
            \cup {Nfa_concat(Nfa_concat(x, y), accept) : x \in one, y \in one}
            \cup {Nfa_concat(Nfa_positive(x), accept) : x \in one}
            \cup {Nfa_concat(Nfa_star(x), accept) : x \in one}

\* the number of patterns combined so far
NumPatterns(n) == Cardinality({k \in 1..Len(n) : n[k].accepting # None})

\* nfa.combine(pattern): the k-th pattern of a lexer carries the payload k
CombinePattern(other) ==
    /\ NumPatterns(nfa) < MaxPatterns
    /\ CombineWithin(other, MaxLexStates)

\* Lexer::new(input)
LexerNew(input) ==
    /\ ~panicked
    /\ dfa # <<>>
    /\ lexer = NoLexer
    /\ lexer' = [input |-> input, pos |-> 0, result |-> None]
    /\ UNCHANGED <<nfa, last, panicked, dfa, iv, resolving, conv, codegen>>

\* lexer.next_token(), until it reports an error
NextToken ==
    /\ lexer # NoLexer
    /\ IF lexer.result = None THEN TRUE ELSE lexer.result[1].kind = "Token"
    /\ LET r == next_token(dfa, lexer.input, lexer.pos)
       IN lexer' = [lexer EXCEPT !.pos = r.pos, !.result = Some(r)]
    /\ UNCHANGED <<nfa, last, panicked, dfa, iv, resolving, conv, codegen>>

Init ==
    /\ nfa = Nfa_new_empty
    /\ last = NoCall
    /\ panicked = FALSE
    /\ dfa = <<>>
    /\ lexer = NoLexer
    /\ iv = NoIntersect
    /\ resolving = NoResolve
    /\ conv = NoConv
    /\ codegen = NoCodeGen

Next ==
    \/ \E x \in Constructed : Construct(x)
    \/ \E other \in Operands : Concat(other)
    \/ \E other \in Operands : Union(other)
    \/ Star
    \/ Positive
    \/ \E other \in Operands : Combine(other)
    \/ FromNfa

Spec == Init /\ [][Next]_vars


-----------------------------------------------------------------------------
(* Reference semantics of the automata, used to state the properties *)

\* the targets of the epsilon moves of state i
EpsilonTargets(n, i) ==
    IF i < Len(n)
    THEN {i + off : off \in Range(get_moves(n[i + 1], Epsilon))}
    ELSE {}

\* the targets of the moves of state i that fire on code point c
InputTargets(n, i, c) ==
    IF i < Len(n)
    THEN UNION {{i + off : off \in Range(n[i + 1].moves[t])} :
                   t \in {u \in DOMAIN n[i + 1].moves :
                             IsInput(u) /\ Contains(InputInterval(u), c)}}
    ELSE {}

\* the least set containing S and closed under the epsilon moves
RECURSIVE NfaClosure(_, _)
NfaClosure(n, S) ==
    LET more == S \cup UNION {EpsilonTargets(n, i) : i \in S}
    IN  IF more = S THEN S ELSE NfaClosure(n, more)

NfaMove(n, S, c) ==
    NfaClosure(n, UNION {InputTargets(n, i, c) : i \in S})

RECURSIVE NfaRun(_, _, _, _)
NfaRun(n, S, s, k) ==
    IF k > Len(s) THEN S ELSE NfaRun(n, NfaMove(n, S, s[k]), s, k + 1)

\* the set of NFA states reached on s from state 0
NfaReach(n, s) == NfaRun(n, NfaClosure(n, {0}), s, 1)

\* s leads to the implicit terminal of n
InLang(n, s) == Len(n) \in NfaReach(n, s)

\* s leads to a state of n that carries a payload
NfaAccepts(n, s) == \E i \in NfaReach(n, s) : Nfa_accepting(n, i) # None

Prefix(s, k) == SubSeq(s, 1, k)
Suffix(s, k) == SubSeq(s, k + 1, Len(s))

\* s is a concatenation of zero or more strings of L(n)
RECURSIVE InStar(_, _)
InStar(n, s) ==
    \/ s = <<>>
    \/ \E k \in 1..Len(s) : InLang(n, Prefix(s, k)) /\ InStar(n, Suffix(s, k))

\* s is a concatenation of one or more strings of L(n)
InPlus(n, s) ==
    \E k \in 0..Len(s) : InLang(n, Prefix(s, k)) /\ InStar(n, Suffix(s, k))

\* the DFA state reached on s from state 0 (None: no transition on the way)
RECURSIVE DfaRun(_, _, _, _)
DfaRun(d, state, s, k) ==
    IF k > Len(s) THEN Some(state)
    ELSE LET on == {i \in DOMAIN d[state + 1].moves : Contains(i, s[k])}
         IN IF on = {} THEN None
            ELSE DfaRun(d, d[state + 1].moves[CHOOSE i \in on : TRUE], s, k + 1)

DfaReach(d, s) == DfaRun(d, 0, s, 1)

DfaAccepts(d, s) ==
    DfaReach(d, s) # None /\ is_accepting(d[DfaReach(d, s)[1] + 1])


-----------------------------------------------------------------------------
(* Properties of the NFA builders *)

\* C5: after a.concat(b) the NFA reaches its implicit terminal on exactly the
\* strings of L(a) followed by L(b), and it is a's states followed by b's
\* states, none of them rewritten
C5_ConcatLanguage ==
    last.op = "concat" =>
        /\ nfa = last.a \o last.b
        /\ \A s \in Strings :
              InLang(nfa, s) <=>
                  \E k \in 0..Len(s) : /\ InLang(last.a, Prefix(s, k))
                                       /\ InLang(last.b, Suffix(s, k))

C5_Witness ==
    /\ last.op = "concat"
    /\ last.a # <<>>
    /\ last.b # <<>>
    /\ \E s \in Strings : Len(s) >= 2 /\ InLang(nfa, s)

\* C6: after a.union(b) the NFA reaches its implicit terminal on exactly the
\* strings of L(a) or L(b), and both merge states lead by epsilon to the
\* common terminal
C6_UnionLanguage ==
    last.op = "union" =>
        /\ \A s \in Strings :
              InLang(nfa, s) <=> (InLang(last.a, s) \/ InLang(last.b, s))
        /\ transitions(nfa, Len(last.a) + 1, Epsilon) = <<Len(nfa)>>
        /\ transitions(nfa, Len(nfa) - 1, Epsilon) = <<Len(nfa)>>

C6_Witness ==
    /\ last.op = "union"
    /\ \E s \in Strings : InLang(last.a, s) /\ ~InLang(last.b, s)
    /\ \E s \in Strings : InLang(last.b, s) /\ ~InLang(last.a, s)
    /\ \E s \in Strings : ~InLang(nfa, s)

\* C7: after a.star() the NFA reaches its implicit terminal on exactly the
\* concatenations of zero or more strings of L(a); it accepts the empty input
C7_StarLanguage ==
    last.op = "star" =>
        /\ InLang(nfa, <<>>)
        /\ \A s \in Strings : InLang(nfa, s) <=> InStar(last.a, s)

C7_Witness ==
    /\ last.op = "star"
    /\ ~InLang(last.a, <<>>)
    /\ \E s \in Strings : Len(s) = 2 /\ InLang(nfa, s) /\ ~InLang(last.a, s)
    /\ \E s \in Strings : ~InLang(nfa, s)

\* C8: after a.positive() the NFA reaches its implicit terminal on exactly the
\* concatenations of one or more strings of L(a); the entry has the single
\* epsilon offset +1 and the exit has the epsilon offsets +1 and -|a|
C8_PositiveLanguage ==
    last.op = "positive" =>
        /\ \A s \in Strings : InLang(nfa, s) <=> InPlus(last.a, s)
        /\ InLang(nfa, <<>>) <=> InLang(last.a, <<>>)
        /\ nfa[1].moves = [t \in {Epsilon} |-> <<1>>]
        /\ nfa[Len(nfa)].moves = [t \in {Epsilon} |-> <<1, -Len(last.a)>>]

C8_Witness ==
    /\ last.op = "positive"
    /\ ~InLang(nfa, <<>>)
    /\ \E s \in Strings : Len(s) = 2 /\ InLang(nfa, s) /\ ~InLang(last.a, s)

\* C9: every transition offset of every state, added to the state's own
\* position, yields an index in [0, len]
C9_OffsetsInRange ==
    \A i \in 0..(Len(nfa) - 1) :
        \A t \in DOMAIN nfa[i + 1].moves :
            \A off \in Range(nfa[i + 1].moves[t]) :
                0 <= i + off /\ i + off <= Len(nfa)

C9_Witness ==
    /\ last.op = "combine"
    /\ ~panicked
    /\ Len(nfa) = MaxStates
    /\ \E i \in 0..(Len(nfa) - 1) :
          \E off \in Range(get_moves(nfa[i + 1], Epsilon)) : off < 0
    /\ Len(get_moves(nfa[1], Epsilon)) >= 2


\* the interval algebra alone
NextInterval ==
    /\ iv = NoIntersect
    /\ \E a \in AllIntervals, b \in AllIntervals : Intersect(a, b)

SpecInterval == Init /\ [][NextInterval]_vars

\* a lexer: patterns are combined, the DFA is built, the matcher runs
InitLexer ==
    /\ nfa \in PatternsFor(1)
    /\ last = [op |-> "new", a |-> <<>>, b |-> <<>>]
    /\ panicked = FALSE
    /\ dfa = <<>>
    /\ lexer = NoLexer
    /\ iv = NoIntersect
    /\ resolving = NoResolve
    /\ conv = NoConv
    /\ codegen = NoCodeGen

NextLexer ==
    \/ \E other \in PatternsFor(NumPatterns(nfa) + 1) : CombinePattern(other)
    \/ FromNfa
    \/ \E input \in Strings : LexerNew(input)
    \/ NextToken

SpecLexer == InitLexer /\ [][NextLexer]_vars

-----------------------------------------------------------------------------
(* Properties of the interval algebra *)

PartsOf(res) == {res[k][1] : k \in {j \in 1..3 : res[j] # None}}

\* C10: the parts of a.intersect(b) that are present are non-empty and
\* pairwise disjoint, they cover exactly the code points of a or b, and the
\* middle part lies in both a and b
C10_IntersectPartition ==
    iv # NoIntersect =>
        LET res == iv.res
        IN  /\ \A k \in 1..3 : res[k] # None => res[k][1] \in AllIntervals
            /\ \A j \in 1..3, k \in 1..3 :
                  (j < k /\ res[j] # None /\ res[k] # None)
                      => ~intersects(res[j][1], res[k][1])
            /\ \A c \in 0..U32Max :
                  (\E part \in PartsOf(res) : Contains(part, c))
                      <=> (Contains(iv.a, c) \/ Contains(iv.b, c))
            /\ res[2] # None =>
                  \A c \in 0..U32Max :
                      Contains(res[2][1], c)
                          => (Contains(iv.a, c) /\ Contains(iv.b, c))

C10_Witness ==
    /\ iv # NoIntersect
    /\ Interval_first(iv.a) = 0
    /\ Interval_first(iv.b) = 0
    /\ Interval_last(iv.a) = U32Max
    /\ Interval_last(iv.b) < U32Max
    /\ iv.res = <<None, Some(iv.b), Some(<<Interval_last(iv.b) + 1, U32Max>>)>>

-----------------------------------------------------------------------------
(* Properties of the subset construction and of the emitted matcher *)

\* the payload of the lowest-index state with a payload among S
FirstPayload(n, S) ==
    LET acc == {i \in S : Nfa_accepting(n, i) # None}
    IN  IF acc = {} THEN None ELSE Nfa_accepting(n, Min(acc))

\* C1: for every input string s, the NFA accepts s if and only if the DFA
\* returned by Dfa::from_nfa accepts s
C1_DfaEquivalent ==
    dfa # <<>> =>
        \A s \in Strings : NfaAccepts(nfa, s) <=> DfaAccepts(dfa, s)

\* C2: in every DFA returned by Dfa::from_nfa the interval keys of each state
\* are pairwise disjoint, so at most one transition fires on a code point
C2_KeysDisjoint ==
    dfa # <<>> =>
        \A k \in 1..Len(dfa) :
            /\ \A i \in DOMAIN dfa[k].moves, j \in DOMAIN dfa[k].moves :
                  i # j => ~intersects(i, j)
            /\ \A c \in 0..U32Max :
                  Cardinality({i \in DOMAIN dfa[k].moves : Contains(i, c)}) <= 1

\* the move set of the DFA start state, before it is made disjoint
StartMoveSet == get_move_set(nfa, epsilon_closure(nfa, <<0>>))

C2_Witness ==
    /\ dfa # <<>>
    /\ Cardinality(DOMAIN StartMoveSet) = 3
    /\ find_intersection(StartMoveSet) # None
    /\ Cardinality(DOMAIN dfa[1].moves) >= 2

\* the lengths n >= 1 such that some pattern accepts the first n code points
\* of the input that remained at offset start
AcceptedLengths(start) ==
    {n \in 1..(Len(lexer.input) - start) :
        NfaAccepts(nfa, SubSeq(lexer.input, start + 1, start + n))}

\* C3: each next_token call matches the longest prefix of the remaining input
\* that any pattern accepts, and runs the action of the pattern combined first
\* among those that accept it
C3_LongestMatchFirstPattern ==
    (lexer # NoLexer /\ lexer.result # None) =>
        LET r == lexer.result[1]
            lens == AcceptedLengths(r.start)
        IN  IF lens = {} THEN r.kind # "Token"
            ELSE /\ r.kind = "Token"
                 /\ r.pos = r.start + Max(lens)
                 /\ Some(r.val) = FirstPayload(nfa,
                        NfaReach(nfa, SubSeq(lexer.input, r.start + 1,
                                             r.start + Max(lens))))

\* the payloads of the patterns that accept s
AcceptingPatterns(n, s) ==
    {Nfa_accepting(n, i)[1] :
        i \in {j \in NfaReach(n, s) : Nfa_accepting(n, j) # None}}

\* C4: on a string accepted by two or more of the combined patterns the DFA
\* state reached carries the payload of the pattern combined first
C4_FirstCombinedWins ==
    dfa # <<>> =>
        \A s \in Strings :
            Cardinality(AcceptingPatterns(nfa, s)) >= 2 =>
                /\ DfaReach(dfa, s) # None
                /\ dfa[DfaReach(dfa, s)[1] + 1].accepting
                       = FirstPayload(nfa, NfaReach(nfa, s))

-----------------------------------------------------------------------------
(* Properties of the exit of the matcher loop *)

\* the lengths n >= 1 at which the walk of the DFA over the input that
\* remained at offset start has just entered an accepting state
Checkpoints(start) ==
    {n \in 1..(Len(lexer.input) - start) :
        DfaAccepts(dfa, SubSeq(lexer.input, start + 1, start + n))}

\* C11: when the matcher loop exits with a checkpoint, the input is rewound
\* to the last checkpoint and that state's action runs; with no checkpoint
\* and input left at the start of the attempt, NoMatch carries the position
\* where the attempt started; with no checkpoint and no input left,
\* EndOfFile is reported
C11_LoopExit ==
    (lexer # NoLexer /\ lexer.result # None) =>
        LET r == lexer.result[1]
            cps == Checkpoints(r.start)
        IN  IF cps # {}
            THEN /\ r.kind = "Token"
                 /\ r.pos = r.start + Max(cps)
                 /\ lexer.pos = r.pos
                 /\ Some(r.val) =
                        dfa[DfaReach(dfa, SubSeq(lexer.input, r.start + 1,
                                r.start + Max(cps)))[1] + 1].accepting
            ELSE IF r.start < Len(lexer.input)
            THEN r.kind = "NoMatch" /\ r.val = r.start /\ lexer.pos = r.start
            ELSE r.kind = "EndOfFile"

\* a token was matched, then an attempt that consumed a code point found no
\* checkpoint
C11_Witness ==
    /\ lexer # NoLexer
    /\ lexer.result # None
    /\ lexer.result[1].kind = "NoMatch"
    /\ lexer.result[1].start > 0
    /\ lexer.result[1].start + 1 < Len(lexer.input)
    /\ DfaReach(dfa, SubSeq(lexer.input, lexer.result[1].start + 1,
                             lexer.result[1].start + 1)) # None

-----------------------------------------------------------------------------
(* The lexer of overlapping intervals: tests/src/lexers.rs, intersecting_intervals *)

\* the code points of the scenario, renamed in order: ' ' is 0 and the
\* letters a..z are 1..26
Sp == 0
La == 1
Lb == 2
Lc == 3
Ld == 4
Le == 5
Lr == 18
Lt == 20
Lx == 24
Ly == 25
Lz == 26

\* the payloads: Some(Token::Az), Some(Token::Ae), Some(Token::Cz),
\* Some(Token::Bd) and None (the [ ]+ pattern, whose match is skipped)
TokAz == 1
TokAe == 2
TokCz == 3
TokBd == 4
TokSkip == 5

\* Nfa::new(Interval::new(first, last)); positive(); concat(new_accepting(desc))
IntervalPattern(first, last_, desc) ==
    Nfa_concat(Nfa_positive(Nfa_new(Interval_new(first, last_))),
               Nfa_new_accepting(desc))

az == IntervalPattern(La, Lz, TokAz)
ae == IntervalPattern(La, Le, TokAe)
cz == IntervalPattern(Lc, Lz, TokCz)
bd == IntervalPattern(Lb, Ld, TokBd)
spaces == IntervalPattern(Sp, Sp, TokSkip)

\* the payloads of n in the order in which their patterns were combined
CombinedOrder(n) ==
    LET idx == SortedNats({k \in 1..Len(n) : n[k].accepting # None})
    IN  [j \in 1..Len(idx) |-> n[idx[j]].accepting[1]]

\* "abc bcd cde xyz  azerty"
OverlapInput ==
    <<La, Lb, Lc, Sp, Lb, Lc, Ld, Sp, Lc, Ld, Le, Sp, Lx, Ly, Lz, Sp, Sp,
      La, Lz, Le, Lr, Lt, Ly>>

\* the lexer description starts from one of the four letter patterns
InitOverlap ==
    /\ nfa \in {az, ae, cz, bd}
    /\ last = [op |-> "new", a |-> <<>>, b |-> <<>>]
    /\ panicked = FALSE
    /\ dfa = <<>>
    /\ lexer = NoLexer
    /\ iv = NoIntersect
    /\ resolving = NoResolve
    /\ conv = NoConv
    /\ codegen = NoCodeGen

\* nfa.combine(pattern) for a letter pattern not combined yet
CombineLetters(other) ==
    /\ other[Len(other)].accepting[1] \notin Range(CombinedOrder(nfa))
    /\ TokSkip \notin Range(CombinedOrder(nfa))
    /\ CombineWithin(other, 5 * Len(other))

\* nfa.combine(spaces), once the four letter patterns are combined
CombineSpaces ==
    /\ Len(CombinedOrder(nfa)) = 4
    /\ CombineWithin(spaces, 5 * Len(spaces))

NextOverlap ==
    \/ \E other \in {az, ae, cz, bd} : CombineLetters(other)
    \/ CombineSpaces
    \/ Len(CombinedOrder(nfa)) = 5 /\ FromNfa
    \/ LexerNew(OverlapInput)
    \/ NextToken

SpecOverlap == InitOverlap /\ [][NextOverlap]_vars

\* what each next_token call returns on OverlapInput, by the offset at which
\* the call starts: <<kind, end offset, payload>>
OverlapExpected ==
    (0 :> <<"Token", 3, TokAe>>) @@ (3 :> <<"Token", 4, TokSkip>>)
        @@ (4 :> <<"Token", 7, TokBd>>) @@ (7 :> <<"Token", 8, TokSkip>>)
        @@ (8 :> <<"Token", 11, TokAe>>) @@ (11 :> <<"Token", 12, TokSkip>>)
        @@ (12 :> <<"Token", 15, TokCz>>) @@ (15 :> <<"Token", 17, TokSkip>>)
        @@ (17 :> <<"Token", 23, TokAz>>) @@ (23 :> <<"EndOfFile", 23, 0>>)

\* every call so far has returned what OverlapExpected lists
YieldsExpected ==
    lexer.result # None =>
        LET r == lexer.result[1]
        IN  /\ r.start \in DOMAIN OverlapExpected
            /\ <<r.kind, r.pos, r.val>> = OverlapExpected[r.start]

\* C12 (the order of lexers.rs): with [b-d]+, [a-e]+, [c-z]+, [a-z]+ and
\* then [ ]+ combined in that order, lexing "abc bcd cde xyz  azerty" yields
\* Ae, Bd, Ae, Cz, Az (the runs of spaces skipped) and then EndOfFile
C12_OverlapTokensCodeOrder ==
    (lexer # NoLexer
        /\ CombinedOrder(nfa) = <<TokBd, TokAe, TokCz, TokAz, TokSkip>>)
        => YieldsExpected

\* the whole input has been lexed by the lexer of lexers.rs
C12_Witness ==
    /\ lexer # NoLexer
    /\ CombinedOrder(nfa) = <<TokBd, TokAe, TokCz, TokAz, TokSkip>>
    /\ lexer.result # None
    /\ lexer.result[1].kind = "EndOfFile"
    /\ lexer.result[1].start = Len(OverlapInput)

\* C12 as stated: with [a-z]+, [a-e]+, [c-z]+, [b-d]+ and then [ ]+
\* combined in that order, lexing "abc bcd cde xyz  azerty" yields
\* Ae, Bd, Ae, Cz, Az and then EndOfFile
C12_OverlapTokensStatedOrder ==
    (lexer # NoLexer
        /\ CombinedOrder(nfa) = <<TokAz, TokAe, TokCz, TokBd, TokSkip>>)
        => YieldsExpected

-----------------------------------------------------------------------------
(* Dfa::resolve_intersections, one pass of its while loop per step *)

KeyIntervals == {k \in (0..MaxKeyPoint) \X (0..MaxKeyPoint) : k[1] <= k[2]}

\* the values of a move set: sorted vectors of NFA states without duplicates
TargetVecs == {SortedNats(T) : T \in (SUBSET (0..MaxTarget)) \ {{}}}

\* the four overlapping ranges [0-5], [2-8], [4-10], [7-9], each with a
\* target of its own
FourRanges ==
    (<<0, 5>> :> <<0>>) @@ (<<2, 8>> :> <<1>>) @@ (<<4, 10>> :> <<2>>)
        @@ (<<7, 9>> :> <<3>>)

MoveSets ==
    UNION {[K -> TargetVecs] :
              K \in {J \in SUBSET KeyIntervals :
                        Cardinality(J) >= 1 /\ Cardinality(J) <= MaxKeys}}
        \cup {FourRanges}

\* resolve_intersections(&mut move_set) is entered
InitResolve ==
    /\ nfa = Nfa_new_empty
    /\ last = NoCall
    /\ panicked = FALSE
    /\ dfa = <<>>
    /\ lexer = NoLexer
    /\ iv = NoIntersect
    /\ resolving \in {[arg |-> M, move_set |-> M, prev |-> None, passes |-> 0,
                        returned |-> FALSE] : M \in MoveSets}
    /\ conv = NoConv
    /\ codegen = NoCodeGen

\* while let Some((a, b)) = Dfa::find_intersection(move_set) { ... }
ResolveStep ==
    /\ resolving # NoResolve
    /\ ~resolving.returned
    /\ LET found == find_intersection(resolving.move_set)
       IN  /\ found # None
           /\ resolving' =
                  [resolving EXCEPT
                      !.move_set = ResolvePass(resolving.move_set,
                                               found[1][1], found[1][2]),
                      !.prev = Some(resolving.move_set),
                      !.passes = @ + 1]
    /\ UNCHANGED <<nfa, last, panicked, dfa, lexer, iv, conv, codegen>>

\* find_intersection returns None: the loop and the function end
ResolveReturn ==
    /\ resolving # NoResolve
    /\ ~resolving.returned
    /\ find_intersection(resolving.move_set) = None
    /\ resolving' = [resolving EXCEPT !.returned = TRUE]
    /\ UNCHANGED <<nfa, last, panicked, dfa, lexer, iv, conv, codegen>>

NextResolve == ResolveStep \/ ResolveReturn

SpecResolve == InitResolve /\ [][NextResolve]_vars

\* the step machine computes what the operator resolve_intersections does
ResolveAgrees ==
    (resolving # NoResolve /\ resolving.returned)
        => resolving.move_set = resolve_intersections(resolving.arg)

-----------------------------------------------------------------------------
(* Properties of resolve_intersections *)

\* no two keys of the move set m share a code point
KeysDisjoint(m) ==
    \A j \in DOMAIN m, k \in DOMAIN m : j # k => ~intersects(j, k)

\* the sorted union of the targets of the keys of m that contain c
Covering(m, c) ==
    SortedNats(UNION {Range(m[k]) : k \in {j \in DOMAIN m : Contains(j, c)}})

\* every code point has in res a key exactly when it has one in m, and that
\* key of res is unique and carries the targets of all keys of m around it
KeepsTargets(m, res) ==
    \A c \in 0..U32Max :
        LET ks == {k \in DOMAIN res : Contains(k, c)}
        IN  IF \A j \in DOMAIN m : ~Contains(j, c)
            THEN ks = {}
            ELSE /\ Cardinality(ks) = 1
                 /\ \A k \in ks : res[k] = Covering(m, c)

\* C13 (with the count the code gives): the four overlapping ranges [0-5],
\* [2-8], [4-10], [7-9] are resolved into seven pairwise disjoint intervals,
\* each mapped to the union of the targets of the ranges covering its points
C13_FourRangesSeven ==
    (resolving # NoResolve /\ resolving.returned
        /\ resolving.arg = FourRanges)
        => /\ Cardinality(DOMAIN resolving.move_set) = 7
           /\ KeysDisjoint(resolving.move_set)
           /\ KeepsTargets(resolving.arg, resolving.move_set)

\* resolve_intersections has returned from the call on the four ranges
C13_Witness ==
    /\ resolving # NoResolve
    /\ resolving.returned
    /\ resolving.arg = FourRanges
    /\ resolving.passes >= 3

\* C13 as stated: the four overlapping ranges are resolved into five
\* pairwise disjoint intervals, each mapped to the union of the targets of
\* the ranges covering its points
C13_FourRangesFive ==
    (resolving # NoResolve /\ resolving.returned
        /\ resolving.arg = FourRanges)
        => /\ Cardinality(DOMAIN resolving.move_set) = 5
           /\ KeysDisjoint(resolving.move_set)
           /\ KeepsTargets(resolving.arg, resolving.move_set)

-----------------------------------------------------------------------------
(* Properties of Nfa::combine *)

\* n has a last state and that state carries a payload
EndsAccepting(n) == Len(n) > 0 /\ n[Len(n)].accepting # None

\* C14: a.combine(b) aborts, leaving a as it was, whenever a or b does not
\* end in an accepting state (an operand without states included); else it
\* appends the offset +|a| to the epsilon offsets of a's state 0, changes
\* nothing else of a and appends the states of b
C14_CombineAbortsOrAppends ==
    last.op = "combine" =>
        IF EndsAccepting(last.a) /\ EndsAccepting(last.b)
        THEN /\ ~panicked
             /\ Len(nfa) = Len(last.a) + Len(last.b)
             /\ get_moves(nfa[1], Epsilon)
                    = Append(get_moves(last.a[1], Epsilon), Len(last.a))
             /\ DOMAIN nfa[1].moves = DOMAIN last.a[1].moves \cup {Epsilon}
             /\ \A t \in DOMAIN last.a[1].moves :
                    t # Epsilon => nfa[1].moves[t] = last.a[1].moves[t]
             /\ nfa[1].accepting = last.a[1].accepting
             /\ \A k \in 2..Len(last.a) : nfa[k] = last.a[k]
             /\ \A k \in 1..Len(last.b) : nfa[Len(last.a) + k] = last.b[k]
        ELSE /\ panicked
             /\ nfa = last.a

\* combine has aborted on an operand that does not end in an accepting
\* state, while self ends in one and has states to lose
C14_Witness ==
    /\ last.op = "combine"
    /\ panicked
    /\ EndsAccepting(last.a)
    /\ Len(last.a) >= 2
    /\ ~EndsAccepting(last.b)

-----------------------------------------------------------------------------
(* Properties of Dfa::optimize *)

\* the payload the DFA d reports on s (None: s is not accepted)
DfaPayload(d, s) ==
    IF DfaReach(d, s) = None THEN None
    ELSE d[DfaReach(d, s)[1] + 1].accepting

\* C15: running optimize twice gives the DFA that running it once gives,
\* and the DFA after optimize accepts the strings the DFA before it accepts,
\* with the same payloads
C15_OptimizeIdempotentPreserving ==
    dfa # <<>> =>
        LET before == FromNfaStates(nfa)
        IN  /\ dfa = Dfa_optimize(before)
            /\ Dfa_optimize(dfa) = dfa
            /\ \A s \in Strings : DfaPayload(dfa, s) = DfaPayload(before, s)

\* optimize has run on a DFA in which it groups two states that carry
\* different payloads
C15_Witness ==
    /\ dfa # <<>>
    /\ \E g \in Range(OptimizePartition(dfa)) :
           \E i \in Range(g), j \in Range(g) :
               /\ dfa[i + 1].accepting # None
               /\ dfa[j + 1].accepting # None
               /\ dfa[i + 1].accepting # dfa[j + 1].accepting

\* C19: for every move set M given to resolve_intersections and every code
\* point c, after the call c lies in a key of the result iff it lay in a key
\* of M, and the targets of the result key containing c are the sorted,
\* deduplicated union of the targets of all keys of M that contained c
C19_ResolveKeepsTargets ==
    (resolving # NoResolve /\ resolving.returned)
        => KeepsTargets(resolving.arg, resolving.move_set)

\* the number of pairs of a key of m and a code point in it: the sum of the
\* lengths of the keys
KeyLengthSum(m) ==
    Cardinality({p \in (DOMAIN m) \X (0..U32Max) : Contains(p[1], p[2])})

\* a pass of the loop has just run
PassDone == resolving # NoResolve /\ resolving.prev # None

\* C20 (with the measure the code decreases): each pass of the
\* disjointification loop strictly decreases the sum of the lengths of the
\* keys of the move set, and every code point keeps having a key iff it had
\* one
C20_PassShortensKeys ==
    PassDone =>
        /\ KeyLengthSum(resolving.move_set) < KeyLengthSum(resolving.prev[1])
        /\ \A c \in 0..U32Max :
               (\E k \in DOMAIN resolving.move_set : Contains(k, c))
                   <=> (\E k \in DOMAIN resolving.prev[1] : Contains(k, c))

\* a pass has left as many keys as it found, two of them still intersecting
C20_Witness ==
    /\ PassDone
    /\ Cardinality(DOMAIN resolving.move_set)
           = Cardinality(DOMAIN resolving.prev[1])
    /\ ~KeysDisjoint(resolving.move_set)
    /\ KeyLengthSum(resolving.move_set) < KeyLengthSum(resolving.prev[1])

\* C20 as stated: each pass of the disjointification loop either strictly
\* increases the number of keys of the move set or leaves the keys pairwise
\* disjoint
C20_PassAddsKeyOrDisjoint ==
    PassDone =>
        \/ Cardinality(DOMAIN resolving.move_set)
               > Cardinality(DOMAIN resolving.prev[1])
        \/ KeysDisjoint(resolving.move_set)

-----------------------------------------------------------------------------
(* Dfa::from_nfa, one step of its loops per action *)

\* let epsi_0 = nfa.epsilon_closure(&[0]);
\* let mut dfa_states = vec![DState::from_nfa_states(nfa, epsi_0)];
ConvBegin ==
    /\ Building
    /\ conv = NoConv
    /\ conv' = [dfa_states |->
                    <<DState_from_nfa_states(nfa, epsilon_closure(nfa, <<0>>))>>,
                cur_state |-> 0,
                move_set |-> None,
                returned |-> FALSE]
    /\ UNCHANGED <<nfa, last, panicked, dfa, lexer, iv, resolving, codegen>>

\* while cur_state < dfa_states.len() { let mut move_set = nfa.get_move_set(..)
ConvGetMoveSet ==
    /\ conv # NoConv
    /\ ~conv.returned
    /\ conv.move_set = None
    /\ conv.cur_state < Len(conv.dfa_states)
    /\ conv' = [conv EXCEPT !.move_set =
                    Some(get_move_set(nfa,
                             conv.dfa_states[conv.cur_state + 1].nfa_states))]
    /\ UNCHANGED <<nfa, last, panicked, dfa, lexer, iv, resolving, codegen>>

\* one pass of the while loop of Dfa::resolve_intersections(&mut move_set)
ConvResolvePass ==
    /\ conv # NoConv
    /\ conv.move_set # None
    /\ LET found == find_intersection(conv.move_set[1])
       IN  /\ found # None
           /\ conv' = [conv EXCEPT !.move_set =
                           Some(ResolvePass(conv.move_set[1],
                                            found[1][1], found[1][2]))]
    /\ UNCHANGED <<nfa, last, panicked, dfa, lexer, iv, resolving, codegen>>

\* resolve_intersections has returned: the for loop over move_set, then
\* cur_state += 1
ConvAddMoves ==
    /\ conv # NoConv
    /\ conv.move_set # None
    /\ find_intersection(conv.move_set[1]) = None
    /\ conv' = [conv EXCEPT
                    !.dfa_states =
                        FromNfaMoves(nfa, conv.dfa_states, conv.cur_state,
                                     conv.move_set[1],
                                     SortedKeys(DOMAIN conv.move_set[1]), 1),
                    !.cur_state = @ + 1,
                    !.move_set = None]
    /\ UNCHANGED <<nfa, last, panicked, dfa, lexer, iv, resolving, codegen>>

\* the while loop ends: the NFA states are dropped, optimize runs and the
\* Dfa is returned
ConvReturn ==
    /\ conv # NoConv
    /\ ~conv.returned
    /\ conv.move_set = None
    /\ conv.cur_state >= Len(conv.dfa_states)
    /\ conv' = [conv EXCEPT !.returned = TRUE]
    /\ dfa' = Dfa_optimize([k \in 1..Len(conv.dfa_states) |->
                               conv.dfa_states[k].dfa_state])
    /\ UNCHANGED <<nfa, last, panicked, lexer, iv, resolving, codegen>>

ConvStep ==
    \/ ConvGetMoveSet
    \/ ConvResolvePass
    \/ ConvAddMoves
    \/ ConvReturn

NextConvert ==
    \/ conv = NoConv
           /\ \E other \in PatternsFor(NumPatterns(nfa) + 1) :
                  CombinePattern(other)
    \/ ConvBegin
    \/ ConvStep

\* a step of the loops of from_nfa can be taken and changes the state: this is
\* ENABLED <<ConvStep>>_vars, written out by cases (ConvGetMoveSet, ConvAddMoves
\* and ConvReturn always change conv, a pass of the disjointification loop
\* changes it when it changes the move set)
ConvEnabled ==
    /\ conv # NoConv
    /\ ~conv.returned
    /\ \/ conv.move_set = None
       \/ LET found == find_intersection(conv.move_set[1])
          IN  \/ found = None
              \/ ResolvePass(conv.move_set[1], found[1][1], found[1][2])
                     # conv.move_set[1]

\* weak fairness of ConvStep: the loops of from_nfa keep running once it is
\* called. WF_vars(ConvStep) with its enabling condition written out.
ConvFair == <>[]ConvEnabled => []<><<ConvStep>>_vars

SpecConvert == InitLexer /\ [][NextConvert]_vars /\ ConvFair

\* the steps compute what the operator Dfa_from_nfa does
ConvAgrees ==
    (conv # NoConv /\ conv.returned) => dfa = Dfa_from_nfa(nfa)

-----------------------------------------------------------------------------
(* Properties of the running subset construction *)

\* the payloads of the accepting NFA states among S
PayloadsOf(n, S) == {Nfa_accepting(n, i) : i \in S} \ {None}

StrictlyIncreasing(v) == \A k \in 1..(Len(v) - 1) : v[k] < v[k + 1]

\* C16: every DFA state created by Dfa::from_nfa keeps a sorted, deduplicated
\* NFA set and carries the payload of the lowest-index NFA state with a
\* payload in that set (none iff no member has one); from_nfa does not abort
\* when the set holds accepting states with different payloads
C16_LowestIndexPayload ==
    conv # NoConv =>
        /\ ~panicked
        /\ \A k \in 1..Len(conv.dfa_states) :
               LET d == conv.dfa_states[k]
               IN  /\ StrictlyIncreasing(d.nfa_states)
                   /\ d.dfa_state.accepting =
                          FirstPayload(nfa, Range(d.nfa_states))
                   /\ (d.dfa_state.accepting = None
                          <=> PayloadsOf(nfa, Range(d.nfa_states)) = {})

\* from_nfa has returned a Dfa with a state whose NFA set holds accepting
\* states with different payloads
C16_Witness ==
    /\ conv # NoConv
    /\ conv.returned
    /\ ~panicked
    /\ \E k \in 1..Len(conv.dfa_states) :
           Cardinality(PayloadsOf(nfa, Range(conv.dfa_states[k].nfa_states)))
               >= 2

ConvRunning == conv # NoConv

ConvReturned == IF conv = NoConv THEN FALSE ELSE conv.returned

ConvResolving == IF conv = NoConv THEN FALSE ELSE conv.move_set # None

ConvResolved ==
    IF conv = NoConv THEN FALSE
    ELSE conv.move_set # None /\ find_intersection(conv.move_set[1]) = None

\* C17: Dfa::from_nfa terminates: once called it returns, and every move set
\* handed to the disjointification loop reaches a state in which no two keys
\* intersect
C17_FromNfaTerminates ==
    /\ ConvRunning ~> ConvReturned
    /\ ConvResolving ~> ConvResolved

\* from_nfa has returned after expanding at least three DFA states, the first
\* of which had a move set with intersecting keys
C17_Witness ==
    /\ conv # NoConv
    /\ conv.returned
    /\ Len(conv.dfa_states) >= 3
    /\ find_intersection(get_move_set(nfa, conv.dfa_states[1].nfa_states))
           # None

-----------------------------------------------------------------------------
(* codegen.rs: CodeGen. Text is a sequence of symbols: "%", a placeholder
   name, or a piece of Rust text that holds no "%" *)

PlaceholderNames ==
    <<"TOKEN_TYPE", "DECLARE_STATES", "DECLARE_ACCEPTING_STATES",
      "MATCH_INPUT", "MATCH_ACCEPTING_STATE">>

\* the template argument of the stage-th template_replace call of generate
Template(stage) == <<"%", PlaceholderNames[stage], "%">>

\* include_str!("lexer.rs.in"): some text around one use of each placeholder
LexerRsIn ==
    <<"fn next_token(&mut self) ->">> \o Template(1)
        \o <<"enum State {">> \o Template(2)
        \o <<"} enum AcceptingState {">> \o Template(3)
        \o <<"} match state {">> \o Template(4)
        \o <<"} match accepting_state {">> \o Template(5)
        \o <<"}">>

\* the texts a caller passes as token type or as the action of a pattern
TextSymbols == {"%", "TOKEN_TYPE", "MATCH_ACCEPTING_STATE", "Token"}

RECURSIVE TextsUpTo(_)
TextsUpTo(n) ==
    IF n = 0 THEN {<<>>}
    ELSE LET shorter == TextsUpTo(n - 1)
         IN shorter \cup {Append(t, c) : t \in {u \in shorter : Len(u) = n - 1},
                                          c \in TextSymbols}

Texts == TextsUpTo(MaxText) \ {<<>>}

RECURSIVE Flatten(_)
Flatten(ss) == IF ss = <<>> THEN <<>> ELSE Head(ss) \o Flatten(Tail(ss))

HexDigits ==
    <<"0", "1", "2", "3", "4", "5", "6", "7", "8", "9",
      "a", "b", "c", "d", "e", "f">>

\* format!("{:x}", n)
RECURSIVE LowerHex(_)
LowerHex(n) ==
    IF n < 16 THEN <<HexDigits[n + 1]>>
    ELSE Append(LowerHex(n \div 16), HexDigits[(n % 16) + 1])

\* format!("\n    State{},", i) for every state
DeclareStates(states) ==
    Flatten([i \in 1..Len(states) |-> <<"State", ToString(i - 1), ",">>])

\* format!("\n    State{},", i) for every accepting state
DeclareAcceptingStates(states) ==
    Flatten([i \in 1..Len(states) |->
                IF states[i].accepting # None
                THEN <<"State", ToString(i - 1), ",">>
                ELSE <<>>])

\* mutant: the checkpoint is recorded whether or not the target is accepting
MoveArm_always_checkpoint(states, c, target) ==
    (IF Interval_first(c) = Interval_last(c)
     THEN <<"0x">> \o LowerHex(Interval_first(c))
     ELSE <<"0x">> \o LowerHex(Interval_first(c)) \o <<"...", "0x">>
              \o LowerHex(Interval_last(c)))
        \o <<"=> {">>
        \o <<"accepting_state = Some((self.buffer_offset,",
              "AcceptingState::State", ToString(target), "));">>
        \o <<"Some(State::State", ToString(target), ")", "}">>

\* generate_matcher, the arm of one move of a state
MoveArm(states, c, target) ==
    (IF Interval_first(c) = Interval_last(c)
     THEN <<"0x">> \o LowerHex(Interval_first(c))
     ELSE <<"0x">> \o LowerHex(Interval_first(c)) \o <<"...", "0x">>
              \o LowerHex(Interval_last(c)))
        \o <<"=> {">>
        \o (IF is_accepting(states[target + 1])
            THEN <<"accepting_state = Some((self.buffer_offset,",
                   "AcceptingState::State", ToString(target), "));">>
            ELSE <<>>)
        \o <<"Some(State::State", ToString(target), ")", "}">>

\* generate_matcher, the arm of one state
StateArm(states, state_idx) ==
    LET moves == states[state_idx + 1].moves
        keys == SortedKeys(DOMAIN moves)
    IN  <<"State::State", ToString(state_idx), "=> {", "match input as u32 {">>
            \o Flatten([k \in 1..Len(keys) |->
                           MoveArm(states, keys[k], moves[keys[k]])])
            \o <<"_ => None,", "}", "}">>

generate_matcher(states) ==
    Flatten([i \in 1..Len(states) |-> StateArm(states, i - 1)])

\* generate_accepting_matcher, the arm of one accepting state
ActionArm(state_idx, action_code) ==
    <<"AcceptingState::State", ToString(state_idx), "=> {">>
        \o action_code \o <<"}">>

\* actions[d] is the text of the payload d
generate_accepting_matcher(states, actions) ==
    Flatten([i \in 1..Len(states) |->
                IF states[i].accepting # None
                THEN ActionArm(i - 1, actions[states[i].accepting[1]])
                ELSE <<>>])

\* the val argument of the stage-th template_replace call of generate
ReplaceVal(stage, states, token_type, actions) ==
    CASE stage = 1 -> token_type
      [] stage = 2 -> DeclareStates(states)
      [] stage = 3 -> DeclareAcceptingStates(states)
      [] stage = 4 -> generate_matcher(states)
      [] stage = 5 -> generate_accepting_matcher(states, actions)

\* code.find(template): the offset of the first occurrence
find(code, template) ==
    LET hits == {m \in 0..(Len(code) - Len(template)) :
                    SubSeq(code, m + 1, m + Len(template)) = template}
    IN  IF hits = {} THEN None ELSE Some(Min(hits))

\* code.drain(m..(m + n))
drain(code, m, n) == SubSeq(code, 1, m) \o SubSeq(code, m + n + 1, Len(code))

\* code.insert(m, c)
insert(code, m, c) == SubSeq(code, 1, m) \o <<c>> \o SubSeq(code, m + 1, Len(code))

\* for c in val.chars().rev() { code.insert(m, c); }, k symbols still to go
RECURSIVE InsertRev(_, _, _, _)
InsertRev(code, m, val, k) ==
    IF k = 0 THEN code
    ELSE InsertRev(insert(code, m, val[k]), m, val, k - 1)

\* String::insert_str(m, val), which the for loop stands in for
\* (codegen.rs:140-141)
insert_str(code, m, val) ==
    SubSeq(code, 1, m) \o val \o SubSeq(code, m + 1, Len(code))

\* the patterns of the lexers given to the generator
GenPatterns ==
    {Nfa_concat(Nfa_new(<<0, 1>>), Nfa_new_accepting(1)),
     Nfa_concat(Nfa_positive(Nfa_new(<<1, 1>>)), Nfa_new_accepting(1)),
     Nfa_concat(Nfa_concat(Nfa_new(<<0, 0>>), Nfa_star(Nfa_new(<<0, 1>>))),
                Nfa_new_accepting(1))}

\* CodeGen::new(), set_token_type(t), a Dfa whose action has the text p
InitCodeGen ==
    /\ nfa \in GenPatterns
    /\ last = NoCall
    /\ panicked = FALSE
    /\ dfa = Dfa_from_nfa(nfa)
    /\ lexer = NoLexer
    /\ iv = NoIntersect
    /\ resolving = NoResolve
    /\ conv = NoConv
    /\ codegen \in {[token_type |-> t, actions |-> <<p>>, code |-> <<>>,
                     stage |-> 0, m |-> None, written |-> FALSE] :
                       t \in Texts, p \in Texts}

\* generate(dfa, output) up to the first template_replace
Generate ==
    /\ codegen # NoCodeGen
    /\ ~panicked
    /\ codegen.stage = 0
    /\ Len(dfa) > 0
    /\ codegen' = [codegen EXCEPT !.code = LexerRsIn, !.stage = 1]
    /\ UNCHANGED <<nfa, last, panicked, dfa, lexer, iv, resolving, conv>>

\* while let Some(m) = code.find(template) { code.drain(m..(m + template.len()))
TemplateDrain ==
    /\ codegen # NoCodeGen
    /\ ~panicked
    /\ codegen.stage \in 1..5
    /\ codegen.m = None
    /\ LET found == find(codegen.code, Template(codegen.stage))
       IN  /\ found # None
           /\ codegen' = [codegen EXCEPT
                             !.code = drain(@, found[1],
                                            Len(Template(codegen.stage))),
                             !.m = found]
    /\ UNCHANGED <<nfa, last, panicked, dfa, lexer, iv, resolving, conv>>

\* the for loop that inserts val at m; a String that outgrows the memory
\* aborts the process
TemplateInsert ==
    /\ codegen # NoCodeGen
    /\ ~panicked
    /\ codegen.m # None
    /\ LET val == ReplaceVal(codegen.stage, dfa, codegen.token_type,
                             codegen.actions)
       IN  IF Len(codegen.code) + Len(val) <= MaxCodeLen
           THEN /\ codegen' = [codegen EXCEPT
                                  !.code = insert_str(@, codegen.m[1], val),
                                  !.m = None]
                /\ UNCHANGED panicked
           ELSE /\ panicked' = TRUE
                /\ UNCHANGED codegen
    /\ UNCHANGED <<nfa, last, dfa, lexer, iv, resolving, conv>>

\* code.find(template) returns None: template_replace returns
TemplateReturn ==
    /\ codegen # NoCodeGen
    /\ ~panicked
    /\ codegen.stage \in 1..5
    /\ codegen.m = None
    /\ find(codegen.code, Template(codegen.stage)) = None
    /\ codegen' = [codegen EXCEPT !.stage = @ + 1]
    /\ UNCHANGED <<nfa, last, panicked, dfa, lexer, iv, resolving, conv>>

\* output.write_all(code.as_bytes())
WriteAll ==
    /\ codegen # NoCodeGen
    /\ ~panicked
    /\ codegen.stage = 6
    /\ ~codegen.written
    /\ codegen' = [codegen EXCEPT !.written = TRUE]
    /\ UNCHANGED <<nfa, last, panicked, dfa, lexer, iv, resolving, conv>>

\* inserting the symbols of val one by one from the last to the first, as
\* the for loop does, gives what insert_str gives
InsertAgrees ==
    (codegen # NoCodeGen /\ codegen.m # None)
        => LET val == ReplaceVal(codegen.stage, dfa, codegen.token_type,
                                 codegen.actions)
           IN  InsertRev(codegen.code, codegen.m[1], val, Len(val))
                   = insert_str(codegen.code, codegen.m[1], val)

NextCodeGen ==
    \/ Generate
    \/ TemplateDrain
    \/ TemplateInsert
    \/ TemplateReturn
    \/ WriteAll

\* generate is sequential code: it keeps running until it returns
SpecCodeGen == InitCodeGen /\ [][NextCodeGen]_vars /\ WF_vars(NextCodeGen)

-----------------------------------------------------------------------------
(* Properties of CodeGen::generate *)

\* the template from its k-th symbol on, every placeholder replaced once by
\* the text generate computes for it, the replacing text left as it is
RECURSIVE Rendered(_, _, _, _)
Rendered(k, states, token_type, actions) ==
    IF k > Len(LexerRsIn) THEN <<>>
    ELSE LET stages == {st \in 1..5 :
                           /\ k + 2 <= Len(LexerRsIn)
                           /\ SubSeq(LexerRsIn, k, k + 2) = Template(st)}
         IN  IF stages = {}
             THEN <<LexerRsIn[k]>>
                      \o Rendered(k + 1, states, token_type, actions)
             ELSE ReplaceVal(Min(stages), states, token_type, actions)
                      \o Rendered(k + 3, states, token_type, actions)

GenRunning == codegen # NoCodeGen /\ codegen.stage >= 1

GenWritten == codegen # NoCodeGen /\ codegen.written

\* C18: CodeGen::generate terminates for every non-empty DFA, every token
\* type and every payload text, and what it writes is the template with the
\* token type and, in the action arm of each accepting state, the payload
\* text as they were given: neither is read as a placeholder
C18_GenerateTerminatesVerbatim ==
    /\ GenRunning ~> GenWritten
    /\ [](GenWritten =>
              codegen.code = Rendered(1, dfa, codegen.token_type,
                                      codegen.actions))

-----------------------------------------------------------------------------
(* Layout of the states the builder calls add *)

\* a state that is not accepting and whose only moves are the epsilon moves
\* with the given offsets, in that order
OnlyEpsilon(state, offsets) ==
    /\ state.accepting = None
    /\ DOMAIN state.moves = {Epsilon}
    /\ state.moves[Epsilon] = offsets

\* the state sequence n is [E0 | a's states | Mself | b's states | Mother],
\* E0 with the epsilon offsets +1 and +(1 + |a| + 1), Mself with the offset
\* self_offset and Mother with the offset +1
UnionLayout(n, a, b, self_offset) ==
    /\ Len(n) = Len(a) + Len(b) + 3
    /\ SubSeq(n, 2, Len(a) + 1) = a
    /\ SubSeq(n, Len(a) + 3, Len(a) + Len(b) + 2) = b
    /\ OnlyEpsilon(n[1], <<1, 1 + Len(a) + 1>>)
    /\ OnlyEpsilon(n[Len(a) + 2], <<self_offset>>)
    /\ OnlyEpsilon(n[Len(n)], <<1>>)

\* C21 (with the offset the code gives): after a.union(b) the state sequence
\* is [E0 | a's states | Mself | b's states | Mother], where E0 has exactly
\* the epsilon offsets +1 and +(1 + |a| + 1), Mself has the single epsilon
\* offset +(|b| + 2), one past the last state, and Mother has the single
\* epsilon offset +1
C21_UnionLayoutToTerminal ==
    last.op = "union" =>
        /\ UnionLayout(nfa, last.a, last.b, Len(last.b) + 2)
        /\ (Len(last.a) + 1) + (Len(last.b) + 2) = Len(nfa)

\* union has been called on two operands that are not empty
C21_Witness ==
    /\ last.op = "union"
    /\ Len(last.a) >= 1
    /\ Len(last.b) >= 1
    /\ nfa = Nfa_union(last.a, last.b)

\* C21 as stated: after a.union(b) the state sequence is [E0 | a's states |
\* Mself | b's states | Mother], where E0 has exactly the epsilon offsets +1
\* and +(1 + |a| + 1), Mself has the single epsilon offset +(|b| + 1), and
\* Mother has the single epsilon offset +1
C21_UnionLayoutStated ==
    last.op = "union" => UnionLayout(nfa, last.a, last.b, Len(last.b) + 1)

\* C22: after a.star() the new entry state (index 0) has exactly the epsilon
\* offsets +1 and +(|a| + 2), to the old entry and to the implicit terminal,
\* and the appended exit state (last index) has exactly the epsilon offsets
\* +1 and -|a|, to the implicit terminal and back to the old entry
C22_StarLayout ==
    last.op = "star" =>
        /\ Len(nfa) = Len(last.a) + 2
        /\ SubSeq(nfa, 2, Len(last.a) + 1) = last.a
        /\ OnlyEpsilon(nfa[1], <<1, Len(last.a) + 2>>)
        /\ OnlyEpsilon(nfa[Len(nfa)], <<1, -Len(last.a)>>)
        /\ 0 + (Len(last.a) + 2) = Len(nfa)
        /\ (Len(nfa) - 1) - Len(last.a) = 1

\* star has been called on an NFA of at least two states
C22_Witness ==
    /\ last.op = "star"
    /\ Len(last.a) >= 2
    /\ nfa = Nfa_star(last.a)

-----------------------------------------------------------------------------
(* The order of the transition labels *)

\* a < b for two Transition values (derived Ord)
Transition_lt(a, b) == LexLt(a, b)

\* a < b for two Interval values (derived Ord on first, then last)
Interval_lt(a, b) == LexLt(a, b)

\* the labels of the moves of the states of n
Labels(n) == UNION {DOMAIN n[k].moves : k \in 1..Len(n)}

\* t comes before u in the iteration of the move map of state
Before(state, t, u) ==
    LET keys == SortedKeys(DOMAIN state.moves)
    IN  \E j \in 1..Len(keys), k \in 1..Len(keys) :
            j < k /\ keys[j] = t /\ keys[k] = u

\* C23 (with the order the code gives): the ordering of transition labels
\* used as NFA map keys places every Input label before Epsilon, and orders
\* two Input labels by their intervals, lexicographically on (first, last)
C23_InputBeforeEpsilon ==
    /\ \A t \in Labels(nfa), u \in Labels(nfa) :
           Transition_lt(t, u) <=>
               \/ IsInput(t) /\ u = Epsilon
               \/ /\ IsInput(t)
                  /\ IsInput(u)
                  /\ \/ InputInterval(t)[1] < InputInterval(u)[1]
                     \/ /\ InputInterval(t)[1] = InputInterval(u)[1]
                        /\ InputInterval(t)[2] < InputInterval(u)[2]
    /\ \A k \in 1..Len(nfa) :
           \A t \in DOMAIN nfa[k].moves, u \in DOMAIN nfa[k].moves :
               Before(nfa[k], t, u) <=> Transition_lt(t, u)

\* an NFA with a state that has both an Input and an Epsilon move, and with
\* two Input labels of the same first code point
C23_Witness ==
    /\ \E k \in 1..Len(nfa) :
           /\ Epsilon \in DOMAIN nfa[k].moves
           /\ \E t \in DOMAIN nfa[k].moves : IsInput(t)
    /\ \E t \in Labels(nfa), u \in Labels(nfa) :
           /\ IsInput(t)
           /\ IsInput(u)
           /\ InputInterval(t)[1] = InputInterval(u)[1]
           /\ InputInterval(t)[2] < InputInterval(u)[2]

\* C23 as stated: the ordering of transition labels used as NFA map keys
\* places Epsilon before every Input label, and orders two Input labels by
\* their intervals, lexicographically on (first, last)
C23_EpsilonBeforeInput ==
    \A t \in Labels(nfa), u \in Labels(nfa) :
        Transition_lt(t, u) <=>
            \/ t = Epsilon /\ IsInput(u)
            \/ /\ IsInput(t)
               /\ IsInput(u)
               /\ Interval_lt(InputInterval(t), InputInterval(u))

-----------------------------------------------------------------------------
(* The result of Interval::intersect *)

\* x and y in lexicographic order
Ordered(x, y) == IF LexLt(y, x) THEN <<y, x>> ELSE <<x, y>>

\* the result for a <= b that intersect, the left part being given
SplitResult(a, b, left) ==
    LET lo == IF a[2] <= b[2] THEN a[2] ELSE b[2]
        hi == IF a[2] >= b[2] THEN a[2] ELSE b[2]
    IN  <<left,
          Some(<<b[1], lo>>),
          IF lo + 1 <= hi THEN Some(<<lo + 1, hi>>) ELSE None>>

\* C24 (with the left part the code gives): x.intersect(y) = y.intersect(x),
\* and with a <= b the two in lexicographic order the result is
\* (Some(a), None, Some(b)) if they are disjoint; otherwise middle =
\* [b.first, min(a.last, b.last)], left = [a.first, b.first - 1] if that
\* range is non-empty else None, right = [min(a.last, b.last) + 1,
\* max(a.last, b.last)] if that range is non-empty else None; equal
\* intervals return (None, Some(a), None)
C24_IntersectResult ==
    iv # NoIntersect =>
        LET a == Ordered(iv.a, iv.b)[1]
            b == Ordered(iv.a, iv.b)[2]
        IN  /\ iv.res = intersect(iv.b, iv.a)
            /\ ~intersects(a, b) => iv.res = <<Some(a), None, Some(b)>>
            /\ intersects(a, b) =>
                   iv.res = SplitResult(a, b,
                                IF a[1] <= b[1] - 1
                                THEN Some(<<a[1], b[1] - 1>>)
                                ELSE None)
            /\ a = b => iv.res = <<None, Some(a), None>>

\* intersect was called with the later interval first, the two starting at
\* the same code point above 0 and differing in their last
C24_Witness ==
    /\ iv # NoIntersect
    /\ LexLt(iv.b, iv.a)
    /\ iv.a[1] = iv.b[1]
    /\ iv.a[1] > 0
    /\ iv.res = <<None, Some(iv.b), Some(<<iv.b[2] + 1, iv.a[2]>>)>>

\* C24 as stated: x.intersect(y) = y.intersect(x), and with a <= b the two in
\* lexicographic order the result is (Some(a), None, Some(b)) if they are
\* disjoint; otherwise middle = [b.first, min(a.last, b.last)], left =
\* [a.first, b.first - 1] if b.first > 0 else None, right as above; equal
\* intervals return (None, Some(a), None)
C24_IntersectResultStated ==
    iv # NoIntersect =>
        LET a == Ordered(iv.a, iv.b)[1]
            b == Ordered(iv.a, iv.b)[2]
        IN  /\ iv.res = intersect(iv.b, iv.a)
            /\ ~intersects(a, b) => iv.res = <<Some(a), None, Some(b)>>
            /\ (intersects(a, b) /\ a # b) =>
                   iv.res = SplitResult(a, b,
                                IF b[1] > 0
                                THEN Some(<<a[1], b[1] - 1>>)
                                ELSE None)
            /\ a = b => iv.res = <<None, Some(a), None>>

-----------------------------------------------------------------------------
(* Properties of Nfa::epsilon_closure *)

\* the sets of state indices of n, the implicit terminal index Len(n) included
StateSets(n) == SUBSET (0..Len(n))

\* T holds the target of every epsilon move of each of its members
EpsilonClosed(n, T) == \A i \in T : EpsilonTargets(n, i) \subseteq T

\* C25: for every set S of state indices, epsilon_closure(S) is, as a set,
\* the smallest superset of S closed under epsilon transitions (the implicit
\* terminal index len included when reachable), and applying it to its own
\* result adds no state
C25_EpsilonClosureLeast ==
    \A S \in StateSets(nfa) :
        LET res == epsilon_closure(nfa, SortedNats(S))
            R == Range(res)
        IN  /\ S \subseteq R
            /\ EpsilonClosed(nfa, R)
            /\ R = NfaClosure(nfa, S)
            /\ Range(epsilon_closure(nfa, res)) = R

\* an NFA built by star, where the closure of the entry holds the implicit
\* terminal and the closure of the exit goes back to the old entry
C25_Witness ==
    /\ last.op = "star"
    /\ Len(last.a) >= 2
    /\ Len(nfa) \in Range(epsilon_closure(nfa, <<0>>))
    /\ 1 \in Range(epsilon_closure(nfa, <<Len(nfa) - 1>>))
    /\ Range(epsilon_closure(nfa, <<0>>)) # {0}

-----------------------------------------------------------------------------
(* The partition computed by Dfa::optimize *)

\* the states i and j of the DFA are members of one group of the partition
SameGroup(partition, i, j) ==
    \E g \in 1..Len(partition) :
        i \in Range(partition[g]) /\ j \in Range(partition[g])

\* the pairs of distinct states of the DFA d
StatePairs(d) ==
    {p \in (0..(Len(d) - 1)) \X (0..(Len(d) - 1)) : p[1] < p[2]}

\* C26: in the partition computed by optimize, two accepting states whose
\* payloads differ are never members of the same group
C26_PartitionSplitsPayloads ==
    dfa # <<>> =>
        \A p \in StatePairs(dfa) :
            (/\ is_accepting(dfa[p[1] + 1])
             /\ is_accepting(dfa[p[2] + 1])
             /\ dfa[p[1] + 1].accepting # dfa[p[2] + 1].accepting)
                => ~SameGroup(OptimizePartition(dfa), p[1], p[2])

\* C27: the DFA returned by from_nfa holds no two distinct states that the
\* final partition of optimize puts in the same group
C27_StatesAreRepresentatives ==
    dfa # <<>> =>
        \A p \in StatePairs(dfa) :
            ~SameGroup(OptimizePartition(FromNfaStates(nfa)), p[1], p[2])

-----------------------------------------------------------------------------
(* The text that CodeGen::generate_matcher emits, read back *)

\* the pieces of text that begin at the positions of the set starts; the
\* last one runs to the end of text
SplitAt(text, starts) ==
    LET st == SortedNats(starts)
    IN  [i \in 1..Len(st) |->
            SubSeq(text, st[i],
                   IF i < Len(st) THEN st[i + 1] - 1 ELSE Len(text))]

\* the arms "State::State{} => { ... }" of the matcher, in the order of the text
Arms(matcher) ==
    SplitAt(matcher, {k \in 1..Len(matcher) : matcher[k] = "State::State"})

\* the cases of one arm, each ending with its closing brace: the text between
\* "match input as u32 {" and the default case
Cases(arm) ==
    LET body == SubSeq(arm, 5, Len(arm) - 3)
        ends == {k \in 1..Len(body) : body[k] = "}"}
    IN  SplitAt(body, {1} \cup {k + 1 : k \in ends \ {Len(body)}})

\* the number a hexadecimal literal of the emitted text denotes
RECURSIVE HexValue(_)
HexValue(digits) ==
    IF digits = <<>> THEN 0
    ELSE 16 * HexValue(SubSeq(digits, 1, Len(digits) - 1))
            + (CHOOSE d \in 0..15 : HexDigits[d + 1] = digits[Len(digits)])

\* the checkpoint statement naming the accepting state target
Checkpoint(target) ==
    <<"accepting_state = Some((self.buffer_offset,",
      "AcceptingState::State", ToString(target), "));">>

\* case is the case of the interval c moving to target: an equality pattern
\* when first = last and an inclusive range pattern otherwise, a checkpoint
\* naming the target iff the target is accepting, and the move to the target
\* at the end
IsCaseOf(case, states, c, target) ==
    \E p \in 1..Len(case) :
        /\ case[p] = "=> {"
        /\ LET label == SubSeq(case, 1, p - 1)
               body == SubSeq(case, p + 1, Len(case) - 1)
               dots == {q \in 1..Len(label) : label[q] = "..."}
           IN  /\ Len(label) >= 2 /\ label[1] = "0x"
               /\ IF Interval_first(c) = Interval_last(c)
                  THEN /\ dots = {}
                       /\ HexValue(SubSeq(label, 2, Len(label)))
                              = Interval_first(c)
                  ELSE \E q \in dots :
                          /\ dots = {q}
                          /\ HexValue(SubSeq(label, 2, q - 1))
                                 = Interval_first(c)
                          /\ q + 1 < Len(label) /\ label[q + 1] = "0x"
                          /\ HexValue(SubSeq(label, q + 2, Len(label)))
                                 = Interval_last(c)
               /\ Len(body) >= 3
               /\ SubSeq(body, Len(body) - 2, Len(body))
                      = <<"Some(State::State", ToString(target), ")">>
               /\ SubSeq(body, 1, Len(body) - 3)
                      = (IF is_accepting(states[target + 1])
                         THEN Checkpoint(target) ELSE <<>>)
        /\ case[Len(case)] = "}"

\* arm is the arm of the state state_idx: its header, one case per key of the
\* move map in key order, then the default case
IsArmOf(arm, states, state_idx) ==
    LET moves == states[state_idx + 1].moves
        keys == SortedKeys(DOMAIN moves)
    IN  /\ Len(arm) >= 7
        /\ SubSeq(arm, 1, 4) = <<"State::State", ToString(state_idx), "=> {",
                                 "match input as u32 {">>
        /\ SubSeq(arm, Len(arm) - 2, Len(arm)) = <<"_ => None,", "}", "}">>
        /\ IF keys = <<>> THEN Len(arm) = 7
           ELSE /\ Len(Cases(arm)) = Len(keys)
                /\ \A k \in 1..Len(keys) :
                       IsCaseOf(Cases(arm)[k], states, keys[k], moves[keys[k]])

\* C28: generate_matcher emits one arm per DFA state in index order; in each
\* arm exactly one case per outgoing interval, an equality case when
\* first = last and an inclusive range case otherwise, followed by the
\* default case; a case records a checkpoint naming the target iff the target
\* is accepting and always ends by moving to the target
C28_MatcherArms ==
    dfa # <<>> =>
        LET arms == Arms(generate_matcher(dfa))
        IN  /\ Len(arms) = Len(dfa)
            /\ generate_matcher(dfa)[1] = "State::State"
            /\ \A i \in 1..Len(dfa) : IsArmOf(arms[i], dfa, i - 1)

\* a DFA with a range key and a single-point key, a move to an accepting
\* state and a move to a state that is not accepting
C28_Witness ==
    /\ dfa # <<>>
    /\ \E i, j \in 1..Len(dfa) :
           /\ \E c \in DOMAIN dfa[i].moves : Interval_first(c) # Interval_last(c)
           /\ \E c \in DOMAIN dfa[j].moves : Interval_first(c) = Interval_last(c)
    /\ \E i, j \in 1..Len(dfa) :
           /\ \E c \in DOMAIN dfa[i].moves :
                  is_accepting(dfa[dfa[i].moves[c] + 1])
           /\ \E c \in DOMAIN dfa[j].moves :
                  ~is_accepting(dfa[dfa[j].moves[c] + 1])
    /\ Len(Arms(generate_matcher(dfa))) >= 3

-----------------------------------------------------------------------------
(* Properties of Dfa::find_intersection *)

\* the intervals j and k have a code point in common
SharePoint(j, k) ==
    \E c \in Interval_first(j)..Interval_last(j) : Contains(k, c)

\* no key of the move set m lies between the keys j and k in the order of the
\* map
AdjacentKeys(m, j, k) ==
    /\ Interval_lt(j, k)
    /\ ~\E x \in DOMAIN m : Interval_lt(j, x) /\ Interval_lt(x, k)

\* C29: find_intersection returns None iff the keys of the move set are
\* pairwise disjoint; a returned pair is a pair of keys that intersect and
\* are adjacent in the sorted order, the smaller one first
C29_FindIntersectionComplete ==
    resolving # NoResolve =>
        LET m == resolving.move_set
            found == find_intersection(m)
        IN  /\ (found = None) <=>
                   (\A j \in DOMAIN m, k \in DOMAIN m :
                        j # k => ~SharePoint(j, k))
            /\ found # None =>
                   /\ found[1][1] \in DOMAIN m
                   /\ found[1][2] \in DOMAIN m
                   /\ SharePoint(found[1][1], found[1][2])
                   /\ AdjacentKeys(m, found[1][1], found[1][2])

\* after a pass, a move set of three keys or more in which two keys that are
\* not adjacent intersect, and find_intersection returns an adjacent pair
C29_Witness ==
    /\ resolving # NoResolve
    /\ resolving.passes >= 1
    /\ Cardinality(DOMAIN resolving.move_set) >= 3
    /\ find_intersection(resolving.move_set) # None
    /\ \E j \in DOMAIN resolving.move_set, k \in DOMAIN resolving.move_set :
           /\ Interval_lt(j, k)
           /\ SharePoint(j, k)
           /\ ~AdjacentKeys(resolving.move_set, j, k)

-----------------------------------------------------------------------------
(* Progress of the repeated next_token calls *)

\* a further next_token call is possible and changes the lexer
NextTokenEnabled ==
    /\ lexer # NoLexer
    /\ IF lexer.result = None THEN TRUE ELSE lexer.result[1].kind = "Token"
    /\ Some(next_token(dfa, lexer.input, lexer.pos)) # lexer.result

\* weak fairness of NextToken, written out
LexFair == <>[]NextTokenEnabled => []<><<NextToken>>_vars

\* the caller keeps calling next_token for as long as it can
SpecLexerFair == InitLexer /\ [][NextLexer]_vars /\ LexFair

\* the last call ran an action: it found a checkpoint
TokenReported ==
    lexer # NoLexer /\ lexer.result # None /\ lexer.result[1].kind = "Token"

\* the last call reported EndOfFile or NoMatch
LexerStopped ==
    /\ lexer # NoLexer
    /\ lexer.result # None
    /\ lexer.result[1].kind \in {"EndOfFile", "NoMatch"}

\* a call that ran an action consumed at least one code point
TokenConsumes ==
    TokenReported =>
        /\ lexer.result[1].pos > lexer.result[1].start
        /\ lexer.pos = lexer.result[1].pos

\* C30: a checkpoint is recorded on a transition only, so every next_token
\* call that runs an action has consumed at least one code point, and the
\* repeated calls on a finite input eventually report EndOfFile or NoMatch,
\* also when DFA state 0 is accepting
C30_LexerProgress ==
    /\ []TokenConsumes
    /\ (lexer # NoLexer) ~> LexerStopped

\* a lexer whose DFA state 0 is accepting has reported NoMatch after a call
\* that consumed input
C30_Witness ==
    /\ dfa # <<>>
    /\ is_accepting(dfa[1])
    /\ LexerStopped
    /\ lexer.result[1].kind = "NoMatch"
    /\ lexer.pos > 0

=============================================================================
